---- MODULE Spec2Model ----
(***************************************************************************)
(* A model of src/services/processors.ts of the AIO-Tool repository:       *)
(*   - compressToTargetSize, the target-size JPEG compressor, as a step    *)
(*     machine with one step per awaited canvas.toBlob callback;           *)
(*   - processTool, the tool dispatcher, with one action per branch;       *)
(*   - its office branch, its image branch and the archive of a batch,     *)
(*     step by step;                                                       *)
(*   - loadFFmpeg and processMedia with several calls in flight;           *)
(* and of src/components/ToolProcessor.tsx: the server URL setting and the *)
(* status, result and error message of the component.                      *)
(*                                                                         *)
(* Quality is a real number in [0, 1] in the code.  Every quality the code *)
(* uses is a multiple of 1/12800: 1.0, the midpoints k/128 and 0.01.  The  *)
(* model counts quality in units of 1/12800, so that all of them are       *)
(* integers and (min + max) / 2 is exact, as it is in IEEE doubles for     *)
(* these dyadic values.                                                    *)
(***************************************************************************)
EXTENDS Integers, Sequences, FiniteSets, TLC

VARIABLES
    \* ---- compressToTargetSize (one call) ----
    cpc,        \* where the call is: loading, initial, search, fallback,
                \* resolved, rejected, stuck
    img,        \* the input image, by what the browser does with it: whether
                \* it decodes, whether its canvas gets a 2d context, whether
                \* its canvas can be encoded, its size at quality 0.01
    targetKB,   \* the targetKB argument
    min,        \* let min
    max,        \* let max
    bestBlob,   \* let bestBlob
    i,          \* the loop counter
    probes,     \* the blobs canvas.toBlob delivered, in call order
    settled,    \* the value the returned promise resolved with
    \* ---- processTool (one call) ----
    tpc,        \* called, resolved, rejected, pending (never settled)
    toolId, files, inputText, options,
    res,        \* the ProcessResult the call resolved with
    raised,     \* the message of the error raised inside the call's body
    \* ---- the office branch of processTool, step by step ----
    office,     \* pc: where the branch is; sent: the fetch calls made so far;
                \* timer: the setTimeout that aborts; clock: the milliseconds
                \* since the fetch was issued
    \* ---- the archive of a batch image operation ----
    zip,        \* pc; names: the input files' names in input order;
                \* targetFormat; stored: the JSZip entries in insertion order,
                \* each with the index of the input whose conversion it
                \* holds; by: which dispatcher built it
    \* ---- the image branch of processTool, conversion by conversion ----
    batch,      \* pc; conv: how each file's conversion ended, or "running";
                \* joined: the array Promise.all fills; order: the files in
                \* the order their conversions ended
    \* ---- the media engine and the processMedia calls that use it ----
    engine,     \* ffmpeg: the module's handle (0 for null); created: the
                \* FFmpeg objects constructed so far; loaded: those whose
                \* load() finished; fs: the files in each one's MEMFS, each
                \* with the call that wrote it and the call whose input it
                \* derives from; calls: each processMedia call's position,
                \* arguments, handle and what it read
    \* ---- the server URL setting ----
    server,     \* item: the localStorage item aio_server_url; mounted and
                \* serverUrl: the component and its state; posted: the URL
                \* the last office conversion posted to; lastSet: the last
                \* string the user set; fresh: mounted after that
    \* ---- the ToolProcessor component ----
    ui,         \* version: which of the two ToolProcessor components of
                \* ToolProcessor.tsx; kind, batch: the tool's input flags;
                \* status, result, errorMsg, files (their names, in order),
                \* text (textInput is non-empty): the component's state;
                \* started, inflight: the processTool calls made and not yet
                \* settled; last: the call that settled in the step just taken
    \* ---- the hash router and the view AppContent renders ----
    router,     \* app: which of the two App modules; mounted; hash: what
                \* window.location.hash reads; path: the router's state;
                \* pending: the hashchange events queued; params and view:
                \* what the last render computed; last: the last write of
                \* the hash, by whom and with what argument
    \* ---- the compression settings and the image function they reach ----
    panel       \* version, tool: the component and its tool; compressMode,
                \* targetSize: the settings' state; last: the image
                \* function processFile called last, and with which options

cvars == <<cpc, img, targetKB, min, max, bestBlob, i, probes, settled>>
tvars == <<tpc, toolId, files, inputText, options, res, raised>>
xvars == <<office, zip, batch, engine, server, ui, router, panel>>
exceptOffice == <<zip, batch, engine, server, ui, router, panel>>
exceptZip == <<office, batch, engine, server, ui, router, panel>>
exceptBatch == <<office, zip, engine, server, ui, router, panel>>
exceptEngine == <<office, zip, batch, server, ui, router, panel>>
exceptServer == <<office, zip, batch, engine, ui, router, panel>>
exceptUi == <<office, zip, batch, engine, server, router, panel>>
exceptRouter == <<office, zip, batch, engine, server, ui, panel>>
exceptPanel == <<office, zip, batch, engine, server, ui, router>>
vars == <<cvars, tvars, xvars>>

----------------------------------------------------------------------------
(* Bounds of the model *)

MaxTargetKB == 2
MaxFiles == 2

----------------------------------------------------------------------------
(* compressToTargetSize: constants *)

\* let max = 1: quality 1.0 in model units
QOne == 100 * 128

\* getBlob(0.01): the minimum quality, in model units
FallbackQuality_Zero == 0 * QOne
FallbackQuality == 128

\* for (let i = 0; i < 7; i++)
Iterations_Eight == 7 + 1
Iterations == 7

\* const targetBytes = targetKB * 1024
KB == 1024
TargetBytes(kb) == kb * KB

\* A Blob is the quality it was encoded at, its size and the getBlob call
\* that produced it (initial, search, fallback); null is toBlob's null (the
\* canvas could not be encoded).
null == [q |-> -1, size |-> -1, call |-> "none"]

\* Quality 0.01 in model units
QHundredth == QOne \div 100

\* Sizes an encoding may have, chosen around the byte budget: one byte
\* under it, exactly on it, one byte over it.
SizesNear(bytes) == {bytes - 1, bytes, bytes + 1}

\* blob.size <= targetBytes
Fits_Strict(blob, targetBytes) == blob.size < targetBytes
Fits_Slack(blob, targetBytes) == blob.size <= targetBytes + 1
Fits(blob, targetBytes) == blob.size <= targetBytes

\* const mid = (min + max) / 2
Mid_Quarter(lo, hi) == lo + (hi - lo) \div 4
Mid(lo, hi) == (lo + hi) \div 2

\* bestBlob = blob, in the branch that fits
RecordBest_First(fits, best, blob) == IF fits /\ best = null THEN blob ELSE best
RecordBest(fits, best, blob) == IF fits THEN blob ELSE best

\* min = mid, in the branch that fits
MoveMin(fits, lo, mid) == IF fits THEN mid ELSE lo

\* max = mid, in the branch that does not fit
MoveMax(fits, hi, mid) == IF fits THEN hi ELSE mid

\* The blobs delivered so far, and the encoding at quality 0.01, which the
\* image fixes from the start.
Range(s) == {s[k] : k \in 1..Len(s)}
Known ==
    {[q |-> p.q, size |-> p.size] : p \in Range(probes) \ {null}}
        \cup {[q |-> QHundredth, size |-> img.sizeAtMin]}

\* getBlob(q): canvas.toBlob(b => r(b!), 'image/jpeg', q).  The encoder is
\* the browser's: null when the canvas cannot be encoded, else a blob whose
\* size is any size, the same one each time the same quality is asked for.
\* The code assumes nothing about how size depends on quality, and neither
\* does the model: sizes that grow with quality are some of the cases.
EncodedSizes(q) ==
    IF \E p \in Known : p.q = q THEN {p.size : p \in {k \in Known : k.q = q}}
    ELSE SizesNear(TargetBytes(targetKB))

GetBlob(q, call) ==
    IF ~img.encodable THEN {null}
    ELSE {[q |-> q, size |-> s, call |-> call] : s \in EncodedSizes(q)}

----------------------------------------------------------------------------
(* compressToTargetSize: the steps *)

\* img.onerror = reject
ImgOnerror ==
    /\ cpc = "loading"
    /\ ~img.decodes
    /\ cpc' = "rejected"
    /\ UNCHANGED <<img, targetKB, min, max, bestBlob, i, probes, settled>>
    /\ UNCHANGED <<tvars, xvars>>

\* img.onload up to the first await: the canvas, the context, the search
\* variables, and the call of getBlob(1.0)
ImgOnload ==
    /\ cpc = "loading"
    /\ img.decodes
    /\ IF ~img.ctx
       THEN /\ cpc' = "rejected"
            /\ UNCHANGED <<min, max, bestBlob>>
       ELSE /\ cpc' = "initial"
            /\ min' = 0
            /\ max' = QOne
            /\ bestBlob' = null
    /\ UNCHANGED <<img, targetKB, i, probes, settled>>
    /\ UNCHANGED <<tvars, xvars>>

\* const initialBlob = await getBlob(1.0); if (initialBlob.size <= targetBytes)
InitialEncode ==
    /\ cpc = "initial"
    /\ \E initialBlob \in GetBlob(QOne, "initial") :
         /\ probes' = Append(probes, initialBlob)
         /\ IF initialBlob = null
            THEN \* initialBlob.size throws inside the async onload handler:
                 \* nothing settles the returned promise
                 /\ cpc' = "stuck"
                 /\ UNCHANGED <<i, settled>>
            ELSE IF Fits(initialBlob, TargetBytes(targetKB))
            THEN /\ cpc' = "resolved"
                 /\ settled' = initialBlob
                 /\ UNCHANGED i
            ELSE /\ cpc' = IF 0 < Iterations THEN "search" ELSE "fallback"
                 /\ i' = 0
                 /\ UNCHANGED settled
    /\ UNCHANGED <<img, targetKB, min, max, bestBlob>>
    /\ UNCHANGED <<tvars, xvars>>

\* One iteration of the loop, and after the last one the code up to the
\* next await: resolve(bestBlob) or the call of getBlob(0.01)
SearchStep ==
    /\ cpc = "search"
    /\ i < Iterations
    /\ LET mid == Mid(min, max) IN
       \E blob \in GetBlob(mid, "search") :
         /\ probes' = Append(probes, blob)
         /\ IF blob = null
            THEN /\ cpc' = "stuck"
                 /\ UNCHANGED <<min, max, bestBlob, i, settled>>
            ELSE LET fits == Fits(blob, TargetBytes(targetKB)) IN
                 /\ bestBlob' = RecordBest(fits, bestBlob, blob)
                 /\ min' = MoveMin(fits, min, mid)
                 /\ max' = MoveMax(fits, max, mid)
                 /\ i' = i + 1
                 /\ IF i' < Iterations
                    THEN /\ cpc' = "search"
                         /\ UNCHANGED settled
                    ELSE IF bestBlob' # null
                    THEN /\ cpc' = "resolved"
                         /\ settled' = bestBlob'
                    ELSE /\ cpc' = "fallback"
                         /\ UNCHANGED settled
    /\ UNCHANGED <<img, targetKB>>
    /\ UNCHANGED <<tvars, xvars>>

\* const minBlob = await getBlob(0.01); resolve(minBlob)
FallbackEncode ==
    /\ cpc = "fallback"
    /\ \E minBlob \in GetBlob(FallbackQuality, "fallback") :
         /\ probes' = Append(probes, minBlob)
         /\ settled' = minBlob
         /\ cpc' = "resolved"
    /\ UNCHANGED <<img, targetKB, min, max, bestBlob, i>>
    /\ UNCHANGED <<tvars, xvars>>

\* What a call of compressToTargetSize(file, targetKB) comes to, from what
\* the browser does with the file: the promise resolves, rejects, or is
\* never settled.
CompressOutcome(decodes, ctx, encodable) ==
    IF ~decodes \/ ~ctx THEN "rejected"
    ELSE IF ~encodable THEN "stuck"
    ELSE "resolved"

----------------------------------------------------------------------------
(* processTool: inputs *)

\* A File is its name, split at the dots, its MIME type and what its bytes
\* are: a JPEG, a JPEG too large for a canvas to encode, a PNG, a PDF, a ZIP,
\* JSON text, or bytes that are not what the name says.
FileKinds ==
    { [name |-> <<"a", "jpg">>, type |-> "image/jpeg", content |-> "jpeg"],
      [name |-> <<"b", "png">>, type |-> "image/png", content |-> "png"],
      [name |-> <<"c", "jpg">>, type |-> "image/jpeg", content |-> "corrupt"],
      [name |-> <<"g", "jpg">>, type |-> "image/jpeg", content |-> "jpeg-huge"],
      [name |-> <<"d", "pdf">>, type |-> "application/pdf", content |-> "pdf"],
      [name |-> <<"e", "pdf">>, type |-> "application/pdf", content |-> "corrupt"],
      [name |-> <<"z", "zip">>, type |-> "application/zip", content |-> "zip"],
      [name |-> <<"j", "json">>, type |-> "application/json", content |-> "json"] }

FileLists == UNION {[1..n -> FileKinds] : n \in 0..MaxFiles}

\* The tool ids of the catalog (src/constants.ts), and ids outside it
CatalogIds ==
    { "pdf-to-word", "word-to-pdf", "excel-to-pdf", "pdf-to-excel", "ppt-to-pdf",
      "pdf-to-ppt", "text-to-pdf", "pdf-to-text", "html-to-pdf", "merge-pdf",
      "split-pdf", "jpg-to-png", "png-to-jpg", "webp-to-jpg", "heic-to-jpg",
      "svg-to-png", "image-compressor", "remove-bg", "image-resizer",
      "mp3-to-wav", "wav-to-mp3", "m4a-to-mp3", "audio-compressor",
      "extract-audio", "mp4-to-avi", "mov-to-mp4", "video-compressor",
      "video-to-gif", "trim-video", "zip-to-rar", "rar-to-zip",
      "extract-archive", "ocr-pdf", "json-to-csv", "qr-generator",
      "base64-encoder" }
ToolIds ==
    CatalogIds \cup {"avi-to-mp4", "mkv-to-mp4", "m4a-to-mp4",
                     "gr-scale-converter", "image-to-pdf", "markdown-to-html",
                     "no-such-tool", ""}

\* A JavaScript number: an integer or NaN; 0 and NaN are falsy
Num(n) == [nan |-> FALSE, n |-> n]
NaN == [nan |-> TRUE, n |-> 0]
Truthy(x) == ~x.nan /\ x.n # 0

OptionSets ==
    { [compressMode |-> "quality", targetSizeKB |-> Num(0)],
      [compressMode |-> "size", targetSizeKB |-> Num(0)],
      [compressMode |-> "size", targetSizeKB |-> NaN],
      [compressMode |-> "size", targetSizeKB |-> Num(5)],
      [compressMode |-> "size", targetSizeKB |-> Num(0 - 5)] }

InputTexts == {"", "hello"}

----------------------------------------------------------------------------
(* processTool: results and outcomes *)

undefined == "undefined"

\* A ProcessResult.  parts lists the input files (by position) whose content
\* is in the output behind url.
Result(success, type, url, text, filename, message, parts) ==
    [success |-> success, type |-> type, url |-> url, text |-> text,
     filename |-> filename, message |-> message, parts |-> parts]

FileResult(filename, parts) ==
    Result(TRUE, "file", "blob:", undefined, filename, undefined, parts)
TextResult(text, message) ==
    Result(TRUE, "text", undefined, text, <<>>, message, <<>>)
Failure(message) ==
    Result(FALSE, "text", undefined, undefined, <<>>, message, <<>>)

\* What a piece of asynchronous code comes to: it returns a value, throws
\* (or its promise rejects) with an error whose message is error ("" for a
\* thrown value without a message, such as the Event of img.onerror), or
\* never settles.
NoResult == Failure(undefined)
Ret(r) == [kind |-> "return", result |-> r, error |-> undefined]
Throw(message) == [kind |-> "throw", result |-> NoResult, error |-> message]
Pending(message) == [kind |-> "pending", result |-> NoResult, error |-> message]
\* A promise resolved with a blob, whose bytes are not modelled
Done == Ret(NoResult)

\* catch (error): { success: false, message: error.message || "An error ..." }
Catch_Raw(o) ==
    IF o.kind = "throw"
    THEN [kind |-> "return", result |-> Failure(o.error), error |-> o.error]
    ELSE o
Catch(o) ==
    IF o.kind = "throw"
    THEN [kind |-> "return",
          result |-> Failure(IF o.error = ""
                             THEN "An error occurred during processing."
                             ELSE o.error),
          error |-> o.error]
    ELSE o

\* The settling of processTool's promise by the outcome of its body
Settle(o) ==
    /\ tpc' = CASE o.kind = "return" -> "resolved"
                [] o.kind = "throw" -> "rejected"
                [] OTHER -> "pending"
    /\ res' = o.result
    /\ raised' = o.error

Indices(fs) == [k \in 1..Len(fs) |-> k]
\* The positions of fs that are in keep, in order
SelectIdx(fs, keep) ==
    LET F[n \in 0..Len(fs)] ==
          IF n = 0 THEN <<>>
          ELSE IF n \in keep THEN Append(F[n - 1], n) ELSE F[n - 1]
    IN F[Len(fs)]

----------------------------------------------------------------------------
(* processTool: the processors it calls *)

\* What the browser and the libraries do with a file's bytes
Decodes(f) == f.content \in {"jpeg", "png", "jpeg-huge"}
Encodable(f) == f.content # "jpeg-huge"
LoadsAsPdf(f) == f.content = "pdf"

\* compressToTargetSize(f, targetKB), as processFile awaits it
CompressCall(f) ==
    { CASE CompressOutcome(Decodes(f), ctx, Encodable(f)) = "resolved" ->
             Done
        [] CompressOutcome(Decodes(f), ctx, Encodable(f)) = "rejected" ->
             Throw(IF Decodes(f) THEN "Canvas context failed" ELSE "")
        [] OTHER ->
             Pending("Cannot read properties of null (reading 'size')")
      : ctx \in BOOLEAN }

\* processImage(f, operation, format, quality)
ProcessImage(f) ==
    IF ~Decodes(f) THEN {Throw("")}
    ELSE {Throw("Canvas Context failed")} \cup
         (IF Encodable(f) THEN {Done}
          ELSE {Throw("Canvas to Blob failed")})

\* const processFile = async (f) => ...
UsesTargetSize(id, opts) ==
    id = "image-compressor" /\ opts.compressMode = "size" /\ Truthy(opts.targetSizeKB)
ProcessFile(f, id, opts) ==
    IF UsesTargetSize(id, opts) THEN CompressCall(f) ELSE ProcessImage(f)

\* await Promise.all(files.map(...)): rejects with the first rejection,
\* resolves when every promise has resolved, and otherwise never settles
PromiseAll(os) ==
    IF \E k \in DOMAIN os : os[k].kind = "throw"
    THEN {Throw(os[k].error) : k \in {j \in DOMAIN os : os[j].kind = "throw"}}
    ELSE IF \E k \in DOMAIN os : os[k].kind = "pending"
    THEN {Pending(os[k].error) : k \in {j \in DOMAIN os : os[j].kind = "pending"}}
    ELSE {Done}

\* mergePDFs(files): the first file that does not load throws
MergePDFs_Skipping(fs) ==
    LET loaded == {k \in 1..Len(fs) : LoadsAsPdf(fs[k])} IN
    IF loaded = {}
    THEN Throw("No valid PDF files were processed.")
    ELSE Ret(FileResult(<<"merged_document", "pdf">>, SelectIdx(fs, loaded)))
MergePDFs(fs) ==
    IF \E k \in 1..Len(fs) : ~LoadsAsPdf(fs[k])
    THEN Throw("Failed to process file. It appears to be corrupted or not a valid PDF.")
    ELSE IF Len(fs) = 0
    THEN Throw("No valid PDF files were processed.")
    ELSE Ret(FileResult(<<"merged_document", "pdf">>, Indices(fs)))

\* imageToPDF(files): a file is embedded as a JPEG or as a PNG by its type or
\* its extension; a file of another format and a file that does not embed are
\* skipped
Ext(f) == f.name[Len(f.name)]
IsJpg(f) == f.type = "image/jpeg" \/ (Len(f.name) > 1 /\ Ext(f) \in {"jpg", "jpeg"})
IsPng(f) == f.type = "image/png" \/ (Len(f.name) > 1 /\ Ext(f) = "png")
Embeds(f) ==
    IF IsJpg(f) THEN f.content \in {"jpeg", "jpeg-huge"}
    ELSE IF IsPng(f) THEN f.content = "png"
    ELSE FALSE
ImageToPDF(fs) ==
    LET embedded == {k \in 1..Len(fs) : Embeds(fs[k])} IN
    IF embedded = {}
    THEN Throw("No valid images (JPG/PNG) could be added to the PDF.")
    ELSE Ret(FileResult(<<"images", "pdf">>, SelectIdx(fs, embedded)))

\* name.substring(0, name.lastIndexOf('.')) || name
BaseName(name) ==
    IF Len(name) < 2 \/ (Len(name) = 2 /\ name[1] = "") THEN name
    ELSE SubSeq(name, 1, Len(name) - 1)

----------------------------------------------------------------------------
(* processTool: one action per branch of the dispatcher *)

MediaTools ==
    { "mp4-to-avi", "mov-to-mp4", "avi-to-mp4", "mkv-to-mp4", "video-compressor",
      "video-to-gif", "extract-audio", "mp3-to-wav", "wav-to-mp3", "m4a-to-mp3",
      "audio-compressor" }
imageTools ==
    { "jpg-to-png", "png-to-jpg", "webp-to-jpg", "image-compressor",
      "gr-scale-converter", "image-resizer", "svg-to-png" }
OfficeTools == {"word-to-pdf", "pdf-to-word", "excel-to-pdf", "ppt-to-pdf"}

\* The body of the try block settles the promise through the catch clause
Finish(o) == Settle(Catch(o)) /\ UNCHANGED <<toolId, files, inputText, options>>
    /\ UNCHANGED <<cvars, xvars>>

\* processMedia(file, toolId, options): the engine loads or fails to, the
\* transcode and the read of its output succeed or throw
OutputName(id) ==
    CASE id \in {"extract-audio", "wav-to-mp3", "m4a-to-mp3"} -> <<"output", "mp3">>
      [] id = "video-to-gif" -> <<"output", "gif">>
      [] id = "video-compressor" -> <<"compressed", "mp4">>
      [] id = "mp4-to-avi" -> <<"output", "avi">>
      [] id \in {"mov-to-mp4", "avi-to-mp4", "m4a-to-mp4", "mkv-to-mp4"} ->
           <<"output", "mp4">>
      [] id = "mp3-to-wav" -> <<"output", "wav">>
      [] id = "audio-compressor" -> <<"compressed", "mp3">>
      [] OTHER -> <<>>
ProcessMedia(id) ==
    IF OutputName(id) = <<>>
    THEN {Throw("Tool not implemented in media engine.")}
    ELSE { Throw("Video engine failed to initialize. "),
           Throw("ffmpeg: the transcode or the read of its output failed"),
           Ret(FileResult(OutputName(id), <<1>>)) }

\* if ([...].includes(toolId))
Media ==
    /\ tpc = "called"
    /\ toolId \in MediaTools
    /\ IF Len(files) = 0
       THEN Finish(Throw("No media file provided"))
       ELSE \E o \in ProcessMedia(toolId) : Finish(o)

\* if (imageTools.includes(toolId))
ImageOutput(id, fs) ==
    IF Len(fs) = 1
    THEN FileResult(BaseName(fs[1].name) \o
                      <<IF id \in {"jpg-to-png", "svg-to-png"} THEN "png" ELSE "jpg">>,
                    <<1>>)
    ELSE FileResult(<<IF id = "image-compressor" THEN "compressed_images"
                      ELSE "converted_images", "zip">>, Indices(fs))
Images ==
    /\ tpc = "called"
    /\ toolId \in imageTools
    /\ IF Len(files) = 0
       THEN Finish(Throw("No files provided"))
       ELSE \E os \in [1..Len(files) -> UNION {ProcessFile(files[k], toolId, options)
                                              : k \in 1..Len(files)}] :
              /\ \A k \in 1..Len(files) :
                   os[k] \in ProcessFile(files[k], toolId, options)
              /\ \E all \in PromiseAll(os) :
                   Finish(IF all.kind = "return"
                          THEN Ret(ImageOutput(toolId, files))
                          ELSE all)

\* if (toolId === 'merge-pdf')
MergePdf ==
    /\ tpc = "called"
    /\ toolId = "merge-pdf"
    /\ IF Len(files) < 2
       THEN Finish(Throw("Please upload at least 2 PDF files to merge."))
       ELSE Finish(MergePDFs(files))

\* if (toolId === 'split-pdf')
SplitPdf ==
    /\ tpc = "called"
    /\ toolId = "split-pdf"
    /\ IF Len(files) = 0
       THEN Finish(Throw("No PDF file provided"))
       ELSE IF ~LoadsAsPdf(files[1])
       THEN Finish(Throw("Failed to process file. It appears to be corrupted or not a valid PDF."))
       ELSE Finish(Ret(FileResult(<<"split_pages", "zip">>, <<1>>)))

\* if (toolId === 'image-to-pdf')
ImageToPdf ==
    /\ tpc = "called"
    /\ toolId = "image-to-pdf"
    /\ Finish(ImageToPDF(files))

\* if (toolId === 'text-to-pdf') and if (toolId === 'markdown-to-html'): the
\* text of the first file, or inputText; the library renders it or throws
TextTools ==
    /\ tpc = "called"
    /\ toolId \in {"text-to-pdf", "markdown-to-html"}
    /\ IF Len(files) = 0 /\ inputText = ""
       THEN Finish(Throw(IF toolId = "text-to-pdf" THEN "No text provided"
                         ELSE "No markdown provided"))
       ELSE \E o \in { Throw("library"),
                       Ret(FileResult(IF toolId = "text-to-pdf"
                                      THEN <<"document", "pdf">>
                                      ELSE <<"converted", "html">>,
                                      IF Len(files) > 0 THEN <<1>> ELSE <<>>)) } :
              Finish(o)

\* if (toolId === 'ocr-pdf')
Ocr ==
    /\ tpc = "called"
    /\ toolId = "ocr-pdf"
    /\ IF Len(files) = 0
       THEN Finish(Throw("No file provided"))
       ELSE IF files[1].type \in {"image/jpeg", "image/png"}
       THEN \E o \in {Throw("tesseract"), Ret(TextResult("text", undefined))} :
              Finish(o)
       ELSE Finish(Ret(Failure("Client-side OCR supports Image files (JPG, PNG).")))

\* if (toolId === 'extract-archive')
ExtractArchive ==
    /\ tpc = "called"
    /\ toolId = "extract-archive"
    /\ IF Len(files) = 0
       THEN Finish(Throw("No archive provided"))
       ELSE IF files[1].content # "zip"
       THEN Finish(Throw("Could not read archive. Ensure it is a valid ZIP file."))
       ELSE Finish(Ret(TextResult("names", "Archive read successfully. Contents:")))

\* if (toolId === 'qr-generator')
QrGenerator ==
    /\ tpc = "called"
    /\ toolId = "qr-generator"
    /\ IF inputText = ""
       THEN Finish(Throw("Please enter text to generate QR Code"))
       ELSE \E o \in { Throw("qrcode"),
                       Ret(Result(TRUE, "image", "data:", undefined,
                                  <<"qrcode", "png">>, undefined, <<>>)) } :
              Finish(o)

\* if (toolId === 'base64-encoder'), when it returns
Base64 ==
    /\ tpc = "called"
    /\ toolId = "base64-encoder"
    /\ Len(files) > 0 \/ inputText # ""
    /\ \E o \in { Throw(IF Len(files) > 0 THEN "" ELSE "btoa"),
                  Ret(TextResult(IF Len(files) > 0 THEN "encodeBase64(files[0])"
                                 ELSE "btoa(inputText)", undefined)) } :
         Finish(o)

\* if (toolId === 'json-to-csv'), when it returns
JsonToCsv ==
    /\ tpc = "called"
    /\ toolId = "json-to-csv"
    /\ Len(files) > 0
    /\ IF files[1].content # "json"
       THEN Finish(Throw("Invalid JSON file"))
       ELSE Finish(Ret(FileResult(files[1].name \o <<"csv">>, <<1>>)))

\* if ([...].includes(toolId)): the office tools post the first file to the
\* conversion server.  The fetch rejects (no connection, abort), the server
\* answers with an error status, or it answers with the converted file; the
\* inner catch turns every failure into a result.
OfficeCatch(o) ==
    IF o.kind = "throw"
    THEN [kind |-> "return",
          result |-> Failure("Could not connect to conversion server."),
          error |-> o.error]
    ELSE o
Office ==
    /\ tpc = "called"
    /\ toolId \in OfficeTools
    /\ IF Len(files) = 0
       THEN Finish(Ret(Failure("Could not connect to local conversion server.")))
       ELSE \E o \in { Throw("Failed to fetch"),
                       Throw("Server responded with error"),
                       Ret(FileResult(BaseName(files[1].name) \o <<"pdf">>, <<1>>)) } :
              Finish(OfficeCatch(o))

\* await wait(1000); return { success: false, message: "Tool not implemented yet." }
FallThrough_Stub == Ret(TextResult("", undefined))
FallThrough == Ret(Failure("Tool not implemented yet."))

Recognized ==
    MediaTools \cup imageTools \cup OfficeTools \cup
    { "merge-pdf", "split-pdf", "image-to-pdf", "text-to-pdf", "markdown-to-html",
      "ocr-pdf", "extract-archive", "qr-generator", "base64-encoder",
      "json-to-csv" }

NotImplemented ==
    /\ tpc = "called"
    /\ \/ toolId \notin Recognized
       \/ toolId = "base64-encoder" /\ Len(files) = 0 /\ inputText = ""
       \/ toolId = "json-to-csv" /\ Len(files) = 0
    /\ Finish(FallThrough)

----------------------------------------------------------------------------
(* The office branch of processTool step by step: the fetch, its abort      *)
(* timer, the response's headers and the response's body.  Time is counted  *)
(* in milliseconds and advances in steps of TickMs.                         *)

TimeoutMs == 60000
TickMs == 20 * 1000
MaxClock == 5

OfficeIdle == office = [pc |-> "idle", sent |-> 0, timer |-> "unset", clock |-> 0]

\* catch (e: any) { ...; return { success: false, message: msg, type: 'text' } }:
\* the catch clause leaves the branch, it does not go back to the fetch
AfterCatch_Retry == "start"
AfterCatch == "done"

OfficeSettle(o) ==
    /\ Settle(Catch(OfficeCatch(o)))
    /\ UNCHANGED <<toolId, files, inputText, options>>

\* if (files.length > 0) is false: the return below the try block
OfficeNoFile ==
    /\ office.pc = "start"
    /\ Len(files) = 0
    /\ OfficeSettle(Ret(Failure("Could not connect to local conversion server.")))
    /\ office' = [office EXCEPT !.pc = "done"]
    /\ UNCHANGED <<cvars, exceptOffice>>

\* const timeoutId = setTimeout(() => controller.abort(), 60000);
\* const response = await fetch(`${cleanUrl}/convert`, {...})
OfficeSend ==
    /\ office.pc = "start"
    /\ Len(files) > 0
    /\ office' = [pc |-> "fetching", sent |-> office.sent + 1,
                  timer |-> "armed", clock |-> 0]
    /\ UNCHANGED <<cvars, tvars, exceptOffice>>

\* Time passes while the call waits or a timer is armed; an armed timer runs
\* when it is due
Tick ==
    /\ office.pc \in {"fetching", "reading"} \/ office.timer = "armed"
    /\ office.clock < MaxClock * TickMs
    /\ ~(office.timer = "armed" /\ office.clock >= TimeoutMs)
    /\ office' = [office EXCEPT !.clock = @ + TickMs]
    /\ UNCHANGED <<cvars, tvars, exceptOffice>>

\* () => controller.abort(): a fetch that is still waiting rejects with an
\* AbortError, which the catch clause turns into a result
TimerFires ==
    /\ office.timer = "armed"
    /\ office.clock >= TimeoutMs
    /\ IF office.pc = "fetching"
       THEN /\ OfficeSettle(Throw("The user aborted a request."))
            /\ office' = [office EXCEPT !.timer = "fired", !.pc = AfterCatch]
       ELSE /\ office' = [office EXCEPT !.timer = "fired"]
            /\ UNCHANGED tvars
    /\ UNCHANGED <<cvars, exceptOffice>>

\* The fetch rejects: no connection, blocked mixed content
FetchRejects ==
    /\ office.pc = "fetching"
    /\ OfficeSettle(Throw("Failed to fetch"))
    /\ office' = [office EXCEPT !.pc = AfterCatch]
    /\ UNCHANGED <<cvars, exceptOffice>>

\* The fetch resolves with the response's status line and headers:
\* clearTimeout(timeoutId); if (response.ok) { await response.blob() ... }
\* else throw new Error(response.statusText || "Server responded with error")
HeadersArrive ==
    /\ office.pc = "fetching"
    /\ \E ok \in BOOLEAN :
         IF ok
         THEN /\ office' = [office EXCEPT !.timer = "cleared", !.pc = "reading"]
              /\ UNCHANGED tvars
         ELSE /\ OfficeSettle(Throw("Server responded with error"))
              /\ office' = [office EXCEPT !.timer = "cleared", !.pc = AfterCatch]
    /\ UNCHANGED <<cvars, exceptOffice>>

\* const blob = await response.blob(); return { success: true, ... }
BodyArrives ==
    /\ office.pc = "reading"
    /\ OfficeSettle(Ret(FileResult(BaseName(files[1].name) \o <<"pdf">>, <<1>>)))
    /\ office' = [office EXCEPT !.pc = "done"]
    /\ UNCHANGED <<cvars, exceptOffice>>

\* response.blob() rejects: the connection breaks while the body is read
BodyFails ==
    /\ office.pc = "reading"
    /\ OfficeSettle(Throw("network error"))
    /\ office' = [office EXCEPT !.pc = AfterCatch]
    /\ UNCHANGED <<cvars, exceptOffice>>

----------------------------------------------------------------------------
(* The archive of a batch image operation.  File names are strings, here   *)
(* sequences of characters, so that lastIndexOf, substring and the         *)
(* template literals are computed as the code computes them.               *)

MaxBatch == 3

ZipIdle == zip = [pc |-> "idle", names |-> <<>>, targetFormat |-> "jpeg",
                  stored |-> <<>>, by |-> "none"]

ZipInputNames ==
    { <<"a", ".", "j", "p", "g">>, <<"a", ".", "p", "n", "g">>,
      <<"a", "_", "1", ".", "j", "p", "g">>, <<"a", "_", "1", ".", "p", "n", "g">>,
      <<"a", "_", "2", ".", "j", "p", "g">>, <<"a">>, <<".", "j", "p", "g">> }
ZipInputLists == UNION {[1..n -> ZipInputNames] : n \in 2..MaxBatch}

\* name.lastIndexOf(c): the 0-based index of the last c, or -1
LastIndexOf(str, c) ==
    LET ks == {k \in 1..Len(str) : str[k] = c}
    IN IF ks = {} THEN -1 ELSE (CHOOSE k \in ks : \A j \in ks : j <= k) - 1

\* name.substring(0, end): a negative end counts as 0
Substring0(str, end) == SubSeq(str, 1, IF end < 0 THEN 0 ELSE end)

\* `${counter}`: the decimal digits of a number
DigitChar(d) ==
    CASE d = 0 -> "0" [] d = 1 -> "1" [] d = 2 -> "2" [] d = 3 -> "3" [] d = 4 -> "4"
      [] d = 5 -> "5" [] d = 6 -> "6" [] d = 7 -> "7" [] d = 8 -> "8" [] d = 9 -> "9"
RECURSIVE NumberToString(_)
NumberToString(n) ==
    IF n < 10 THEN <<DigitChar(n)>> ELSE NumberToString(n \div 10) \o <<DigitChar(n % 10)>>

\* const ext = targetFormat === 'jpeg' ? 'jpg' : targetFormat
ZipExt(targetFormat) ==
    IF targetFormat = "jpeg" THEN <<"j", "p", "g">> ELSE <<"p", "n", "g">>

\* let baseName = name.substring(0, name.lastIndexOf('.')); if(!baseName) baseName = name
ZipBaseName_Whole(name) == name
ZipBaseName(name) ==
    LET baseName == Substring0(name, LastIndexOf(name, "."))
    IN IF baseName = <<>> THEN name ELSE baseName

\* `${baseName}_${counter}.${ext}`
Numbered(baseName, counter, ext) ==
    baseName \o <<"_">> \o NumberToString(counter) \o <<".">> \o ext

\* while(usedNames.has(filename)) { filename = `${baseName}_${counter}.${ext}`; counter++; }
WhileUsed_Never(filename, baseName, counter, ext, usedNames) == filename
RECURSIVE WhileUsed(_, _, _, _, _)
WhileUsed(filename, baseName, counter, ext, usedNames) ==
    IF filename \in usedNames
    THEN WhileUsed(Numbered(baseName, counter, ext), baseName, counter + 1, ext, usedNames)
    ELSE filename

\* zip.file(filename, blob): JSZip keeps one entry per name, a second file
\* of the same name replaces the first
ZipFile(stored, filename, blob) ==
    IF \E k \in 1..Len(stored) : stored[k].name = filename
    THEN [k \in 1..Len(stored) |->
            IF stored[k].name = filename THEN [name |-> filename, blob |-> blob]
            ELSE stored[k]]
    ELSE Append(stored, [name |-> filename, blob |-> blob])

\* results.forEach(({ blob, name }) => { ... }) of src/services/processors.ts
RECURSIVE ForEachResult(_, _, _, _, _)
ForEachResult(names, k, ext, usedNames, stored) ==
    IF k > Len(names) THEN stored
    ELSE LET baseName == ZipBaseName(names[k])
             filename == WhileUsed(baseName \o <<".">> \o ext, baseName, 1, ext, usedNames)
         IN ForEachResult(names, k + 1, ext, usedNames \cup {filename},
                          ZipFile(stored, filename, k))

\* blobs.forEach((blob, i) => { zip.file(`processed_${i + 1}.${ext}`, blob) })
\* of the dispatcher in src/unnamed/part_000; k is i + 1
Processed(k, ext) ==
    <<"p", "r", "o", "c", "e", "s", "s", "e", "d", "_">> \o NumberToString(k) \o <<".">> \o ext
RECURSIVE ForEachBlob(_, _, _, _)
ForEachBlob(n, k, ext, stored) ==
    IF k > n THEN stored
    ELSE ForEachBlob(n, k + 1, ext, ZipFile(stored, Processed(k, ext), k))

\* The else branch of if (results.length === 1) in src/services/processors.ts
ZipBatch ==
    /\ zip.pc = "ready"
    /\ zip' = [zip EXCEPT !.pc = "stored", !.by = "processors.ts",
                          !.stored = ForEachResult(zip.names, 1, ZipExt(zip.targetFormat),
                                                   {}, <<>>)]
    /\ UNCHANGED <<cvars, tvars, exceptZip>>

\* The else branch of if (blobs.length === 1) in src/unnamed/part_000
ZipBatchLegacy ==
    /\ zip.pc = "ready"
    /\ zip' = [zip EXCEPT !.pc = "stored", !.by = "part_000",
                          !.stored = ForEachBlob(Len(zip.names), 1,
                                                 ZipExt(zip.targetFormat), <<>>)]
    /\ UNCHANGED <<cvars, tvars, exceptZip>>

----------------------------------------------------------------------------
(* The image branch of processTool conversion by conversion: files.map      *)
(* starts every conversion, the conversions end in any order, Promise.all   *)
(* joins them.                                                              *)

BatchIdle == batch = [pc |-> "idle", conv |-> <<>>, joined |-> <<>>, order |-> <<>>]

\* Promise.all stores the value of the k-th promise at index k of its result
JoinAt(joined, k) == [joined EXCEPT ![k] = k]

\* How the conversions ended so far
Ended(conv) == \A k \in DOMAIN conv : conv[k].kind # "running"
Running == [kind |-> "running", result |-> NoResult, error |-> undefined]

\* if (files.length === 0) throw ...; files.map(async (f) => ...)
BatchStart ==
    /\ batch.pc = "start"
    /\ IF Len(files) = 0
       THEN /\ Settle(Catch(Throw("No files provided")))
            /\ batch' = [batch EXCEPT !.pc = "done"]
       ELSE /\ batch' = [batch EXCEPT !.pc = "awaiting",
                                      !.conv = [k \in 1..Len(files) |-> Running],
                                      !.joined = [k \in 1..Len(files) |-> 0]]
            /\ UNCHANGED <<tpc, res, raised>>
    /\ UNCHANGED <<toolId, files, inputText, options>>
    /\ UNCHANGED <<cvars, exceptBatch>>

\* The conversion of the k-th file ends: const blob = await processFile(f)
\* resolves, rejects, or never continues.  Promise.all rejects with the first
\* rejection and resolves when every conversion has resolved; the code after
\* the await builds the result from the joined array.
ConversionEnds(k) ==
    /\ batch.pc \in {"awaiting", "done"}
    /\ k \in DOMAIN batch.conv
    /\ batch.conv[k].kind = "running"
    /\ \E o \in ProcessFile(files[k], toolId, options) :
         LET conv == [batch.conv EXCEPT ![k] = o]
             joined == IF o.kind = "return" THEN JoinAt(batch.joined, k) ELSE batch.joined
         IN /\ batch' = [batch EXCEPT
                           !.conv = conv, !.joined = joined, !.order = Append(@, k),
                           !.pc = IF o.kind = "throw" \/ Ended(conv) THEN "done" ELSE @]
            /\ IF batch.pc = "done"
               THEN UNCHANGED <<tpc, res, raised>>
               ELSE IF o.kind = "throw"
               THEN Settle(Catch(o))
               ELSE IF ~Ended(conv)
               THEN UNCHANGED <<tpc, res, raised>>
               ELSE IF \E j \in DOMAIN conv : conv[j].kind = "pending"
               THEN Settle(Pending(conv[CHOOSE j \in DOMAIN conv : conv[j].kind = "pending"].error))
               ELSE Settle(Ret([ImageOutput(toolId, files) EXCEPT !.parts = joined]))
    /\ UNCHANGED <<toolId, files, inputText, options>>
    /\ UNCHANGED <<cvars, exceptBatch>>

Conversion == \E k \in 1..MaxFiles + 1 : ConversionEnds(k)

----------------------------------------------------------------------------
(* The media engine: loadFFmpeg and processMedia, with several calls of     *)
(* processTool for media tools in flight.  Every await is a point where     *)
(* another call may run.  The engine's worker handles one request at a      *)
(* time, so writeFile, exec, readFile and deleteFile are atomic.            *)

MaxCalls == 2

Calls == 1..MaxCalls
EngineIdle == engine = [ffmpeg |-> 0, created |-> 0, loaded |-> {}, fs |-> {},
                        calls |-> <<>>]

MediaFileNames == {<<"s", "mp3">>, <<"t", "wav">>}
MediaCallTools == {"mp3-to-wav", "wav-to-mp3"}

\* const inputName = 'input' + file.name.substring(file.name.lastIndexOf('.'))
InputName(name) == <<"input", name[Len(name)]>>

\* MEMFS of one FFmpeg object
FileAt(fs, inst, name) == {e \in fs : e.inst = inst /\ e.name = name}
WriteFile(fs, inst, name, by, of) ==
    (fs \ FileAt(fs, inst, name)) \cup {[inst |-> inst, name |-> name, by |-> by, of |-> of]}
DeleteFile(fs, inst, name) == fs \ FileAt(fs, inst, name)

Call(c) == engine.calls[c]
MediaFrame == UNCHANGED <<cvars, tvars, exceptEngine>>

\* loadFFmpeg(): if (ffmpeg) return ffmpeg; const instance = new FFmpeg(); await ...
LoadFFmpeg(c) ==
    /\ Call(c).pc = "called"
    /\ IF engine.ffmpeg # 0
       THEN engine' = [engine EXCEPT !.calls[c].inst = engine.ffmpeg,
                                     !.calls[c].pc = "write"]
       ELSE engine' = [engine EXCEPT !.created = @ + 1,
                                     !.calls[c].inst = engine.created + 1,
                                     !.calls[c].pc = "loading"]
    /\ MediaFrame

\* await instance.load(...) resolves: ffmpeg = instance; return ffmpeg
EngineLoaded(c) ==
    /\ Call(c).pc = "loading"
    /\ engine' = [engine EXCEPT !.ffmpeg = Call(c).inst,
                                !.loaded = @ \cup {Call(c).inst},
                                !.calls[c].pc = "write"]
    /\ MediaFrame

\* await instance.load(...) or toBlobURL rejects: the catch clause throws
EngineLoadFails(c) ==
    /\ Call(c).pc = "loading"
    /\ engine' = [engine EXCEPT !.calls[c].pc = "failed",
                                !.calls[c].error = "Video engine failed to initialize. "]
    /\ MediaFrame

\* await ffmpeg.writeFile(inputName, fileData)
WriteInput(c) ==
    /\ Call(c).pc = "write"
    /\ engine' = [engine EXCEPT
                    !.fs = WriteFile(@, Call(c).inst, InputName(Call(c).file), c, c),
                    !.calls[c].pc = "exec"]
    /\ MediaFrame

\* await ffmpeg.exec(args): the transcode reads inputName and writes
\* outputName; it writes nothing when the input is missing or does not
\* transcode, and it may throw
Exec(c) ==
    /\ Call(c).pc = "exec"
    /\ LET input == FileAt(engine.fs, Call(c).inst, InputName(Call(c).file))
       IN \/ /\ input # {}
             /\ \E e \in input :
                  engine' = [engine EXCEPT
                               !.fs = WriteFile(@, Call(c).inst, OutputName(Call(c).tool),
                                                c, e.of),
                               !.calls[c].reads = @ \cup {e.by},
                               !.calls[c].pc = "read"]
          \/ engine' = [engine EXCEPT
                          !.calls[c].reads = @ \cup {e.by : e \in input},
                          !.calls[c].pc = "read"]
          \/ engine' = [engine EXCEPT !.calls[c].pc = "failed",
                                      !.calls[c].error = "exec"]
    /\ MediaFrame

\* const data = await ffmpeg.readFile(outputName): throws when there is no
\* such file
ReadOutput(c) ==
    /\ Call(c).pc = "read"
    /\ LET output == FileAt(engine.fs, Call(c).inst, OutputName(Call(c).tool))
       IN IF output = {}
          THEN engine' = [engine EXCEPT !.calls[c].pc = "failed",
                                        !.calls[c].error = "readFile"]
          ELSE \E e \in output :
                 engine' = [engine EXCEPT !.calls[c].reads = @ \cup {e.by},
                                          !.calls[c].got = e.of,
                                          !.calls[c].pc = "cleanup"]
    /\ MediaFrame

\* try { await ffmpeg.deleteFile(inputName); await ffmpeg.deleteFile(outputName) }
\* catch(e) {}; return { success: true, ... }: deleteFile throws when there
\* is no such file, which skips the second deleteFile
Cleanup(c) ==
    /\ Call(c).pc = "cleanup"
    /\ engine' = [engine EXCEPT
                    !.fs = IF FileAt(@, Call(c).inst, InputName(Call(c).file)) = {}
                           THEN @
                           ELSE DeleteFile(DeleteFile(@, Call(c).inst,
                                                      InputName(Call(c).file)),
                                           Call(c).inst, OutputName(Call(c).tool)),
                    !.calls[c].pc = "returned"]
    /\ MediaFrame

MediaCall ==
    \E c \in Calls :
      \/ LoadFFmpeg(c)
      \/ EngineLoaded(c)
      \/ EngineLoadFails(c)
      \/ WriteInput(c)
      \/ Exec(c)
      \/ ReadOutput(c)
      \/ Cleanup(c)

----------------------------------------------------------------------------
(* The server URL: the serverUrl state of ToolProcessor, its localStorage   *)
(* item and the URL the office branch posts to.  URLs are strings, here     *)
(* sequences of characters; the user types strings of "h" and "/".          *)

MaxUrlLen == 3

NoItem == [has |-> FALSE, value |-> <<>>]
Unset == [has |-> FALSE, value |-> <<>>]
ServerIdle == server = [item |-> NoItem, mounted |-> FALSE, serverUrl |-> <<>>,
                        posted |-> Unset, lastSet |-> Unset, fresh |-> FALSE]

UrlStrings == UNION {[1..n -> {"h", "/"}] : n \in 0..MaxUrlLen}

\* 'http://localhost:3001'
DefaultUrl ==
    <<"h", "t", "t", "p", ":", "/", "/", "l", "o", "c", "a", "l", "h", "o", "s", "t",
      ":", "3", "0", "0", "1">>

\* localStorage.getItem('aio_server_url') || 'http://localhost:3001': null
\* and the empty string are falsy
StoredOrDefault(item) ==
    IF ~item.has \/ item.value = <<>> THEN DefaultUrl ELSE item.value

\* options.serverUrl || 'http://localhost:3001'
OptionOrDefault(serverUrl) == IF serverUrl = <<>> THEN DefaultUrl ELSE serverUrl

\* serverUrl.replace(/\/$/, ''): one trailing slash is removed
CleanUrl_Kept(serverUrl) == serverUrl
CleanUrl(serverUrl) ==
    IF Len(serverUrl) > 0 /\ serverUrl[Len(serverUrl)] = "/"
    THEN SubSeq(serverUrl, 1, Len(serverUrl) - 1)
    ELSE serverUrl

\* `${cleanUrl}/convert`
ConvertUrl(serverUrl) ==
    CleanUrl(OptionOrDefault(serverUrl)) \o <<"/", "c", "o", "n", "v", "e", "r", "t">>

ServerFrame == UNCHANGED <<cvars, tvars, exceptServer>>

\* The component mounts: useState(() => localStorage.getItem(...) || ...)
Mount ==
    /\ ~server.mounted
    /\ server' = [server EXCEPT !.mounted = TRUE,
                                !.serverUrl = StoredOrDefault(server.item),
                                !.fresh = TRUE]
    /\ ServerFrame

\* The component unmounts: its state is gone, the localStorage item stays
Unmount ==
    /\ server.mounted
    /\ server' = [server EXCEPT !.mounted = FALSE, !.serverUrl = <<>>]
    /\ ServerFrame

\* onChange={(e) => saveServerUrl(e.target.value)}:
\* setServerUrl(url); localStorage.setItem('aio_server_url', url)
SaveServerUrl ==
    /\ server.mounted
    /\ \E u \in UrlStrings :
         server' = [server EXCEPT !.serverUrl = u,
                                  !.item = [has |-> TRUE, value |-> u],
                                  !.lastSet = [has |-> TRUE, value |-> u],
                                  !.posted = Unset,
                                  !.fresh = FALSE]
    /\ ServerFrame

\* handleProcess passes options.serverUrl = serverUrl to processTool, whose
\* office branch posts to `${cleanUrl}/convert`
PostConvert ==
    /\ server.mounted
    /\ server' = [server EXCEPT
                    !.posted = [has |-> TRUE, value |-> ConvertUrl(server.serverUrl)]]
    /\ ServerFrame

----------------------------------------------------------------------------
(* The ToolProcessor component.  src/components/ToolProcessor.tsx holds two *)
(* components of that name: the first converts with handleProcess, the      *)
(* second with startConversion.  Each user event and each settling of a     *)
(* processTool call is one action.                                          *)

MaxConversions == 2
MaxUiFiles == 2

NoStored == [n |-> 0, res |-> NoResult]
NoneSettled == [n |-> 0, success |-> FALSE, just |-> FALSE]
UiIdle == ui = [version |-> "none", kind |-> "file", batch |-> FALSE,
                status |-> "idle", result |-> NoStored, errorMsg |-> "",
                files |-> <<>>, text |-> FALSE, started |-> 0, inflight |-> {},
                last |-> NoneSettled]

\* isTextInputTool, isHybridTool, supportsBatch: the combinations the catalog has
ToolFlags ==
    { [kind |-> "text", batch |-> FALSE], [kind |-> "hybrid", batch |-> FALSE],
      [kind |-> "file", batch |-> FALSE], [kind |-> "file", batch |-> TRUE] }

\* What a processTool call resolves with
UiOutcomes ==
    { FileResult(<<"output">>, <<>>), TextResult("text", undefined),
      Failure("Tool not implemented yet.") }

\* res.message || "Processing failed."
MessageOr(message, default) == IF message \in {undefined, ""} THEN default ELSE message

\* Array.from(e.target.files), Array.from(e.dataTransfer.files): a non-empty
\* list of files; a drop carries several files whatever the tool is
UiFileNames == {"f", "g"}
NewFiles == UNION { [1..n -> UiFileNames] : n \in 1..MaxUiFiles }

\* prev.filter((_, i) => i !== index)
FilterOut(prev, index) ==
    [at \in 1..(Len(prev) - 1) |-> IF at < index THEN prev[at] ELSE prev[at + 1]]

\* supportsBatch ? [...prev, ...newFiles] : [newFiles[0]]
HandleFilesList(supportsBatch, prev, newFiles) ==
    IF supportsBatch THEN prev \o newFiles ELSE <<newFiles[1]>>

\* supportsBatch ? [...prev, ...newFiles] : newFiles
DroppedList(supportsBatch, prev, newFiles) ==
    IF supportsBatch THEN prev \o newFiles ELSE newFiles

Min(a, b) == IF a < b THEN a ELSE b
FreeId == CHOOSE n \in 1..MaxConversions :
            /\ n \notin ui.inflight
            /\ \A m \in 1..MaxConversions : m \notin ui.inflight => n <= m
UiFrame == UNCHANGED <<cvars, tvars, exceptUi>>
Shown(u) == [u EXCEPT !.last.just = FALSE]

\* ---- the first component (lines 127-687) ----

\* handleFiles(newFiles), from the file input's onChange and from onDrop; the
\* upload area is rendered while result is null
HandleFiles ==
    /\ ui.version = "handleProcess"
    /\ ui.kind # "text"
    /\ ui.result = NoStored
    /\ \E newFiles \in NewFiles :
         /\ ui.batch => Len(ui.files) + Len(newFiles) <= MaxUiFiles
         /\ ui' = [Shown(ui) EXCEPT
                     !.files = HandleFilesList(ui.batch, ui.files, newFiles),
                     !.errorMsg = "", !.result = NoStored, !.status = "idle"]
    /\ UiFrame

\* removeFile(index)
RemoveFile ==
    /\ ui.version = "handleProcess"
    /\ ui.kind # "text"
    /\ ui.result = NoStored
    /\ \E index \in 1..Len(ui.files) :
         ui' = [Shown(ui) EXCEPT !.files = FilterOut(@, index)]
    /\ UiFrame

\* onChange={(e) => setTextInput(e.target.value)} of the text area
SetTextInput ==
    /\ ui.version = "handleProcess"
    /\ ui.result = NoStored
    /\ ui.kind = "text" \/ (ui.kind = "hybrid" /\ ui.files = <<>>)
    /\ \E t \in BOOLEAN : ui' = [Shown(ui) EXCEPT !.text = t]
    /\ UiFrame

\* handleProcess, up to await processTool(...); the button is rendered while
\* result is null and disabled={status === 'processing' || (!files.length && !textInput)}
HandleProcess ==
    /\ ui.version = "handleProcess"
    /\ ui.result = NoStored
    /\ ui.status # "processing"
    /\ ui.files # <<>> \/ ui.text
    /\ Cardinality(ui.inflight) < MaxConversions
    /\ ui' = [Shown(ui) EXCEPT !.status = "processing", !.errorMsg = "",
                               !.result = NoStored,
                               !.started = Min(@ + 1, MaxConversions),
                               !.inflight = @ \cup {FreeId}]
    /\ UiFrame

\* handleProcess, after await processTool(...)
HandleProcessSettles ==
    /\ ui.version = "handleProcess"
    /\ \E n \in ui.inflight, r \in UiOutcomes :
         ui' = IF r.success
               THEN [ui EXCEPT !.result = [n |-> n, res |-> r], !.status = "completed",
                               !.inflight = @ \ {n},
                               !.last = [n |-> n, success |-> TRUE, just |-> TRUE]]
               ELSE [ui EXCEPT !.status = "error",
                               !.errorMsg = MessageOr(r.message, "Processing failed."),
                               !.inflight = @ \ {n},
                               !.last = [n |-> n, success |-> FALSE, just |-> TRUE]]
    /\ UiFrame

\* reset, from the Process Another button of the result view
Reset ==
    /\ ui.version = "handleProcess"
    /\ ui.result # NoStored
    /\ ui' = [Shown(ui) EXCEPT !.files = <<>>, !.text = FALSE, !.result = NoStored,
                               !.status = "idle", !.errorMsg = ""]
    /\ UiFrame

\* ---- the second component (lines 797 to the end) ----

\* handleFileChange and handleDrop; the drop zone and the file input are
\* rendered in status idle while the file list is empty
HandleFileChange ==
    /\ ui.version = "startConversion"
    /\ ui.kind # "text"
    /\ ui.status = "idle"
    /\ ui.files = <<>>
    /\ \E newFiles \in NewFiles :
         ui' = [Shown(ui) EXCEPT !.files = DroppedList(ui.batch, @, newFiles)]
    /\ UiFrame

\* removeFile(index), in status idle
RemoveListedFile ==
    /\ ui.version = "startConversion"
    /\ ui.status = "idle"
    /\ \E index \in 1..Len(ui.files) :
         ui' = [Shown(ui) EXCEPT !.files = FilterOut(@, index)]
    /\ UiFrame

\* onChange={(e) => setTextInput(e.target.value)} of the input or text area
EditTextInput ==
    /\ ui.version = "startConversion"
    /\ ui.status = "idle"
    /\ ui.kind = "text" \/ (ui.kind = "hybrid" /\ ui.files = <<>>)
    /\ \E t \in BOOLEAN : ui' = [Shown(ui) EXCEPT !.text = t]
    /\ UiFrame

\* startConversion, up to await processTool(...); its buttons are rendered in
\* status idle; if (!isTextInputTool && files.length === 0 && !textInput) return
StartConversion ==
    /\ ui.version = "startConversion"
    /\ ui.status = "idle"
    /\ ui.files # <<>> \/ ui.text
    /\ Cardinality(ui.inflight) < MaxConversions
    /\ ui' = [Shown(ui) EXCEPT !.status = "processing", !.errorMsg = "",
                               !.started = Min(@ + 1, MaxConversions),
                               !.inflight = @ \cup {FreeId}]
    /\ UiFrame

\* startConversion, after await processTool(...): a failed result is thrown
\* and caught
StartConversionSettles ==
    /\ ui.version = "startConversion"
    /\ \E n \in ui.inflight, r \in UiOutcomes :
         ui' = IF r.success
               THEN [ui EXCEPT !.result = [n |-> n, res |-> r], !.status = "completed",
                               !.inflight = @ \ {n},
                               !.last = [n |-> n, success |-> TRUE, just |-> TRUE]]
               ELSE [ui EXCEPT !.errorMsg = MessageOr(r.message, "Processing failed"),
                               !.status = "error",
                               !.inflight = @ \ {n},
                               !.last = [n |-> n, success |-> FALSE, just |-> TRUE]]
    /\ UiFrame

\* reset, from Try Again, from Process Another File and from Clear All
ResetAll_KeepsInput ==
    /\ ui.version = "startConversion"
    /\ \/ ui.status = "error"
       \/ ui.status = "completed" /\ ui.result # NoStored
       \/ ui.status = "idle" /\ ui.files # <<>>
    /\ ui' = [Shown(ui) EXCEPT !.status = "idle", !.result = NoStored]
    /\ UiFrame
ResetAll ==
    /\ ui.version = "startConversion"
    /\ \/ ui.status = "error"
       \/ ui.status = "completed" /\ ui.result # NoStored
       \/ ui.status = "idle" /\ ui.files # <<>>
    /\ ui' = [Shown(ui) EXCEPT !.files = <<>>, !.text = FALSE, !.status = "idle",
                               !.result = NoStored]
    /\ UiFrame

\* ---- either component, kept mounted while the tool prop changes ----

\* <ToolProcessor tool={tool} /> given another tool: the flags follow the
\* tool; the second component's effect on [tool.id] resets its state, the
\* first component has no such effect
ToolChanges ==
    /\ ui.version # "none"
    /\ \E t \in ToolFlags :
         /\ t # [kind |-> ui.kind, batch |-> ui.batch]
         /\ ui' = IF ui.version = "startConversion"
                  THEN [Shown(ui) EXCEPT !.kind = t.kind, !.batch = t.batch,
                                         !.files = <<>>, !.text = FALSE,
                                         !.status = "idle", !.result = NoStored,
                                         !.errorMsg = ""]
                  ELSE [Shown(ui) EXCEPT !.kind = t.kind, !.batch = t.batch]
    /\ UiFrame

----------------------------------------------------------------------------
(* The hash router (RouterProvider) and the view AppContent selects *)

\* hashchange events queued and not yet handled
MaxPending == 2

ToolPrefix == <<"/", "t", "o", "o", "l", "/">>
CategoryPrefix == <<"/", "c", "a", "t", "e", "g", "o", "r", "y", "/">>
HomePath == <<"/">>
CategoriesPath == <<"/", "c", "a", "t", "e", "g", "o", "r", "i", "e", "s">>
CategoriesAnchor == <<"/", "#", "c", "a", "t", "e", "g", "o", "r", "i", "e", "s">>

\* The ids of the catalog, one tool and one category standing for all
TOOLS == { <<"a">> }
CATEGORIES == { <<"d">> }

\* The strings a path is drawn from: the routes, with ids of the catalog and
\* not, with further segments, with an empty segment, and strings off the routes
RouterPaths ==
    { <<>>, HomePath, CategoriesPath, CategoriesAnchor,
      ToolPrefix, ToolPrefix \o <<"a">>, ToolPrefix \o <<"b">>,
      ToolPrefix \o <<"/", "a">>, ToolPrefix \o <<"a", "/", "x">>,
      <<"/", "t", "o", "o", "l">>,
      CategoryPrefix, CategoryPrefix \o <<"d">>, CategoryPrefix \o <<"b">>,
      CategoryPrefix \o <<"d", "/", "x">>,
      <<"/", "x">> }

\* window.location.hash = v, as location.hash then reads: a leading '#' of
\* v is dropped, and an empty fragment reads as ''
SetHash(v) ==
    LET fragment == IF v # <<>> /\ Head(v) = "#" THEN Tail(v) ELSE v
    IN  IF fragment = <<>> THEN <<>> ELSE <<"#">> \o fragment

\* window.location.hash.slice(1)
Slice1(str) == IF str = <<>> THEN <<>> ELSE Tail(str)

\* hash || '/'
PathOf_Hash(hash) == IF hash = <<>> THEN HomePath ELSE hash
PathOf(hash) == IF Slice1(hash) = <<>> THEN HomePath ELSE Slice1(hash)

\* path.startsWith(prefix)
StartsWith(str, prefix) ==
    Len(str) >= Len(prefix) /\ SubSeq(str, 1, Len(prefix)) = prefix

\* path.split('/')
RECURSIVE Split(_)
Split(str) ==
    IF \E k \in 1..Len(str) : str[k] = "/"
    THEN LET k == CHOOSE k \in 1..Len(str) :
                    str[k] = "/" /\ \A j \in 1..(k - 1) : str[j] # "/"
         IN  <<SubSeq(str, 1, k - 1)>> \o Split(SubSeq(str, k + 1, Len(str)))
    ELSE <<str>>

\* parts[k], undefined past the end of the array
NoPart == <<"undefined">>
PartAt(parts, k) == IF k + 1 <= Len(parts) THEN parts[k + 1] ELSE NoPart

\* if (parts[2]), params.id || ...: undefined and '' are falsy
IsSet(part) == part # NoPart /\ part # <<>>
OrPart(part, other) == IF IsSet(part) THEN part ELSE other

\* const params = {}; if (path.startsWith('/tool/')) ... else if
\* (path.startsWith('/category/')) ...
NoParams == [id |-> NoPart]
Params_Segment1(path) ==
    IF StartsWith(path, ToolPrefix) \/ StartsWith(path, CategoryPrefix)
    THEN IF IsSet(PartAt(Split(path), 1))
         THEN [id |-> PartAt(Split(path), 1)] ELSE NoParams
    ELSE NoParams
Params(path) ==
    IF StartsWith(path, ToolPrefix)
    THEN IF IsSet(PartAt(Split(path), 2))
         THEN [id |-> PartAt(Split(path), 2)] ELSE NoParams
    ELSE IF StartsWith(path, CategoryPrefix)
    THEN IF IsSet(PartAt(Split(path), 2))
         THEN [id |-> PartAt(Split(path), 2)] ELSE NoParams
    ELSE NoParams

\* ToolPage and CategoryPage: what is rendered for an id
ToolPage(id) ==
    IF id \in TOOLS THEN "ToolProcessor" ELSE "Tool not found"
CategoryPage(id) ==
    IF id \in CATEGORIES THEN "tools of the category"
    ELSE "Category not found"

\* const isHome = ... of App.tsx; if (path === '/' || path === '') of the
\* other App module
IsHome(app, path) ==
    IF app = "App.tsx"
    THEN path \in {HomePath, <<>>, CategoriesAnchor, CategoriesPath}
    ELSE path \in {HomePath, <<>>}

\* AppContent: the page rendered, the id handed to it, and what the page shows
AppContent(app, path, params) ==
    IF IsHome(app, path)
    THEN [page |-> "home", id |-> NoPart, body |-> "HomePage"]
    ELSE IF StartsWith(path, CategoryPrefix)
    THEN LET id == OrPart(params.id, PartAt(Split(path), 2))
         IN  [page |-> "category", id |-> id, body |-> CategoryPage(id)]
    ELSE IF StartsWith(path, ToolPrefix)
    THEN LET id == OrPart(params.id, PartAt(Split(path), 2))
         IN  [page |-> "tool", id |-> id, body |-> ToolPage(id)]
    ELSE [page |-> "404", id |-> NoPart, body |-> "Page not found"]

\* A render of RouterProvider and of AppContent under it
Render(r) == [r EXCEPT !.params = Params(r.path),
                       !.view = AppContent(r.app, r.path, Params(r.path))]

NoWrite == [by |-> "none", arg |-> <<>>]
Unrouted(app, hash) ==
    [app |-> app, mounted |-> FALSE, hash |-> hash, path |-> HomePath,
     pending |-> 0, params |-> NoParams, view |-> AppContent(app, HomePath, NoParams),
     last |-> NoWrite]
RouterIdle == router = Unrouted("none", <<>>)
RouterFrame == UNCHANGED <<cvars, tvars, exceptRouter>>

\* A write of the hash; the browser queues a hashchange event when the
\* fragment changed
WriteHash(r, v, by) ==
    [r EXCEPT !.hash = SetHash(v),
              !.pending = IF SetHash(v) # r.hash THEN @ + 1 ELSE @,
              !.last = [by |-> by, arg |-> v]]

\* useEffect(() => { ...; handleHashChange(); addEventListener(...) }, [])
RouterMount ==
    /\ router.app # "none"
    /\ ~router.mounted
    /\ router' = Render([router EXCEPT !.mounted = TRUE, !.path = PathOf(router.hash)])
    /\ RouterFrame

\* navigate(newPath), with the strings its callers build: '/', '/#categories',
\* '/tool/<id>', '/category/<id>', and the empty string
NavigateArgs == { p \in RouterPaths : p = <<>> \/ Head(p) = "/" }
Navigate ==
    /\ router.mounted
    /\ router.pending < MaxPending
    /\ \E newPath \in NavigateArgs : router' = WriteHash(router, newPath, "navigate")
    /\ RouterFrame

\* onClick={() => window.location.hash = '/'} of the 404 view
GoHome ==
    /\ router.mounted
    /\ router.view.page = "404"
    /\ router.pending < MaxPending
    /\ router' = WriteHash(router, HomePath, "goHome")
    /\ RouterFrame

\* The user edits the fragment in the address bar, or goes back or forward
AddressBar ==
    /\ router.mounted
    /\ router.pending < MaxPending
    /\ \E p \in RouterPaths :
         /\ SetHash(p) # router.hash
         /\ router' = WriteHash(router, p, "user")
    /\ RouterFrame

\* handleHashChange, run for a queued hashchange event
HandleHashChange ==
    /\ router.mounted
    /\ router.pending > 0
    /\ router' = Render([router EXCEPT !.pending = @ - 1,
                                       !.path = PathOf(router.hash)])
    /\ RouterFrame

----------------------------------------------------------------------------
(* The compression settings of ToolProcessor and the processFile they reach *)

\* e.target.value of the target size field: any text, typed or pasted
TypedTexts ==
    { <<>>, <<"0">>, <<"5">>, <<"-">>, <<"x">>, <<"5", "0">>, <<"-", "5">>,
      <<"-", "0">>, <<"5", "x">>, <<"x", "5">> }

IsDigit(c) == \E d \in 0..9 : DigitChar(d) = c
DigitValue(c) == CHOOSE d \in 0..9 : DigitChar(d) = c
LeadingDigits(str) ==
    IF \E k \in 1..Len(str) : ~IsDigit(str[k])
    THEN SubSeq(str, 1, (CHOOSE k \in 1..Len(str) :
                           ~IsDigit(str[k]) /\ \A j \in 1..(k - 1) : IsDigit(str[j])) - 1)
    ELSE str
RECURSIVE Decimal(_)
Decimal(digits) ==
    IF digits = <<>> THEN 0
    ELSE 10 * Decimal(SubSeq(digits, 1, Len(digits) - 1))
         + DigitValue(digits[Len(digits)])
Negative(str) == str # <<>> /\ Head(str) = "-"
Unsigned(str) == IF Negative(str) THEN Tail(str) ELSE str
Signed(str, n) == IF Negative(str) THEN 0 - n ELSE n

\* parseInt(str): the sign and the leading digits, NaN without a digit
ParseInt(str) ==
    IF LeadingDigits(Unsigned(str)) = <<>> THEN NaN
    ELSE Num(Signed(str, Decimal(LeadingDigits(Unsigned(str)))))

\* Number(str): 0 for '', the number when the whole string is one, else NaN
NumberOf(str) ==
    IF str = <<>> THEN Num(0)
    ELSE IF Unsigned(str) # <<>> /\ LeadingDigits(Unsigned(str)) = Unsigned(str)
    THEN Num(Signed(str, Decimal(Unsigned(str))))
    ELSE NaN

\* x || 0
OrZero(x) == IF Truthy(x) THEN x ELSE Num(0)

\* useState(500), useState('quality')
DefaultTargetSize == Num(500)
PanelTools == {"image-compressor", "jpg-to-png"}
NoDispatch ==
    [fn |-> "none", toolId |-> "none",
     options |-> [compressMode |-> "quality", targetSizeKB |-> Num(0)]]
PanelIdle == panel = [version |-> "none", tool |-> "none", compressMode |-> "quality",
                      targetSize |-> DefaultTargetSize, last |-> NoDispatch]
PanelFrame == UNCHANGED <<cvars, tvars, exceptPanel>>

\* onClick={() => setCompressMode(...)}; the settings are rendered for the
\* image compressor
SetCompressMode ==
    /\ panel.tool = "image-compressor"
    /\ \E m \in {"quality", "size"} : panel' = [panel EXCEPT !.compressMode = m]
    /\ PanelFrame

\* onChange of the target size field: setTargetSize(parseInt(e.target.value) || 0)
\* in the first component, setTargetSize(Number(e.target.value)) in the second
SetTargetSize ==
    /\ panel.tool = "image-compressor"
    /\ panel.compressMode = "size"
    /\ \E value \in TypedTexts :
         panel' = [panel EXCEPT !.targetSize =
                     IF panel.version = "handleProcess"
                     THEN OrZero(ParseInt(value)) ELSE NumberOf(value)]
    /\ PanelFrame

\* The tool prop changes: the second component's effect restores the defaults
PanelToolChanges ==
    /\ panel.version # "none"
    /\ \E t \in PanelTools \ {panel.tool} :
         panel' = IF panel.version = "startConversion"
                  THEN [panel EXCEPT !.tool = t, !.compressMode = "quality",
                                     !.targetSize = DefaultTargetSize]
                  ELSE [panel EXCEPT !.tool = t]
    /\ PanelFrame

\* handleProcess or startConversion builds options, processTool reaches
\* processFile(f) for a file, which calls one of the two image functions
PanelOptions == [compressMode |-> panel.compressMode, targetSizeKB |-> panel.targetSize]
ProcessFileCalled ==
    /\ panel.version # "none"
    /\ panel' = [panel EXCEPT !.last =
                   [fn |-> IF UsesTargetSize(panel.tool, PanelOptions)
                           THEN "compressToTargetSize" ELSE "processImage",
                    toolId |-> panel.tool, options |-> PanelOptions]]
    /\ PanelFrame

----------------------------------------------------------------------------
(* The compressor called once with any image and any positive target *)

TIdle ==
    /\ tpc = "idle"
    /\ toolId = "none"
    /\ files = <<>>
    /\ inputText = ""
    /\ options = [compressMode |-> "quality", targetSizeKB |-> Num(0)]
    /\ res = NoResult
    /\ raised = undefined


XIdle ==
    /\ OfficeIdle
    /\ ZipIdle
    /\ BatchIdle
    /\ EngineIdle
    /\ ServerIdle
    /\ UiIdle
    /\ RouterIdle
    /\ PanelIdle

Init ==
    /\ cpc = "loading"
    /\ targetKB \in 1..MaxTargetKB
    /\ img \in [decodes : BOOLEAN, ctx : BOOLEAN, encodable : BOOLEAN,
                sizeAtMin : SizesNear(TargetBytes(targetKB))]
    /\ min = 0
    /\ max = QOne
    /\ bestBlob = null
    /\ i = 0
    /\ probes = <<>>
    /\ settled = null
    /\ TIdle
    /\ XIdle

Next ==
    \/ ImgOnerror
    \/ ImgOnload
    \/ InitialEncode
    \/ SearchStep
    \/ FallbackEncode

Spec == Init /\ [][Next]_vars

----------------------------------------------------------------------------
(* processTool called once with any tool id, files, text and options *)

CIdle ==
    /\ cpc = "idle"
    /\ targetKB = 0
    /\ img = [decodes |-> FALSE, ctx |-> FALSE, encodable |-> FALSE, sizeAtMin |-> 0]
    /\ min = 0
    /\ max = QOne
    /\ bestBlob = null
    /\ i = 0
    /\ probes = <<>>
    /\ settled = null

InitTool ==
    /\ tpc = "called"
    /\ toolId \in ToolIds
    /\ files \in FileLists
    /\ inputText \in InputTexts
    /\ options \in OptionSets
    /\ res = NoResult
    /\ raised = undefined
    /\ CIdle
    /\ XIdle

NextTool ==
    \/ Media
    \/ Images
    \/ MergePdf
    \/ SplitPdf
    \/ ImageToPdf
    \/ TextTools
    \/ Ocr
    \/ ExtractArchive
    \/ QrGenerator
    \/ Base64
    \/ JsonToCsv
    \/ Office
    \/ NotImplemented

SpecTool == InitTool /\ [][NextTool]_vars

----------------------------------------------------------------------------
(* processTool called once with an office tool: the branch step by step *)

InitOffice ==
    /\ tpc = "called"
    /\ toolId \in OfficeTools
    /\ files \in FileLists
    /\ inputText \in InputTexts
    /\ options \in OptionSets
    /\ res = NoResult
    /\ raised = undefined
    /\ office = [pc |-> "start", sent |-> 0, timer |-> "unset", clock |-> 0]
    /\ CIdle
    /\ ZipIdle /\ BatchIdle /\ EngineIdle /\ ServerIdle /\ UiIdle /\ RouterIdle /\ PanelIdle

NextOffice ==
    \/ OfficeNoFile
    \/ OfficeSend
    \/ Tick
    \/ TimerFires
    \/ FetchRejects
    \/ HeadersArrive
    \/ BodyArrives
    \/ BodyFails

SpecOffice == InitOffice /\ [][NextOffice]_vars

----------------------------------------------------------------------------
(* The archive of one batch image operation, for any list of input names *)

InitZip ==
    /\ zip \in [pc : {"ready"}, names : ZipInputLists, targetFormat : {"jpeg", "png"},
                stored : {<<>>}, by : {"none"}]
    /\ CIdle
    /\ TIdle
    /\ OfficeIdle /\ BatchIdle /\ EngineIdle /\ ServerIdle /\ UiIdle /\ RouterIdle /\ PanelIdle

NextZip ==
    \/ ZipBatch
    \/ ZipBatchLegacy

SpecZip == InitZip /\ [][NextZip]_vars

----------------------------------------------------------------------------
(* processTool called once with an image tool: the branch conversion by     *)
(* conversion                                                               *)

InitBatch ==
    /\ tpc = "called"
    /\ toolId \in imageTools
    /\ files \in FileLists
    /\ inputText \in InputTexts
    /\ options \in OptionSets
    /\ res = NoResult
    /\ raised = undefined
    /\ batch = [pc |-> "start", conv |-> <<>>, joined |-> <<>>, order |-> <<>>]
    /\ CIdle
    /\ OfficeIdle /\ ZipIdle /\ EngineIdle /\ ServerIdle /\ UiIdle /\ RouterIdle /\ PanelIdle

NextBatch ==
    \/ BatchStart
    \/ Conversion

SpecBatch == InitBatch /\ [][NextBatch]_vars

----------------------------------------------------------------------------
(* Several calls of processTool for media tools, each with a file of its    *)
(* own, interleaved in every way                                            *)

InitMedia ==
    /\ engine \in [ffmpeg : {0}, created : {0}, loaded : {{}}, fs : {{}},
                   calls : [Calls -> [pc : {"called"}, file : MediaFileNames,
                                      tool : MediaCallTools, inst : {0},
                                      reads : {{}}, got : {0}, error : {undefined}]]]
    /\ CIdle
    /\ TIdle
    /\ OfficeIdle /\ ZipIdle /\ BatchIdle /\ ServerIdle /\ UiIdle /\ RouterIdle /\ PanelIdle

NextMedia == MediaCall

SpecMedia == InitMedia /\ [][NextMedia]_vars

----------------------------------------------------------------------------
(* The server URL setting over mounts, edits and office conversions *)

InitServer ==
    /\ server \in [item : {NoItem} \cup [has : {TRUE}, value : UrlStrings],
                   mounted : {FALSE}, serverUrl : {<<>>}, posted : {Unset},
                   lastSet : {Unset}, fresh : {FALSE}]
    /\ CIdle
    /\ TIdle
    /\ OfficeIdle /\ ZipIdle /\ BatchIdle /\ EngineIdle /\ UiIdle /\ RouterIdle /\ PanelIdle

NextServer ==
    \/ Mount
    \/ Unmount
    \/ SaveServerUrl
    \/ PostConvert

SpecServer == InitServer /\ [][NextServer]_vars

----------------------------------------------------------------------------
(* A ToolProcessor from its mount, for either component and any tool *)

InitUi ==
    /\ ui \in [version : {"handleProcess", "startConversion"},
               kind : {"text", "hybrid", "file"}, batch : BOOLEAN,
               status : {"idle"}, result : {NoStored}, errorMsg : {""},
               files : {<<>>}, text : {FALSE}, started : {0}, inflight : {{}},
               last : {NoneSettled}]
    /\ [kind |-> ui.kind, batch |-> ui.batch] \in ToolFlags
    /\ CIdle
    /\ TIdle
    /\ OfficeIdle /\ ZipIdle /\ BatchIdle /\ EngineIdle /\ ServerIdle /\ RouterIdle /\ PanelIdle

NextUi ==
    \/ HandleFiles
    \/ RemoveFile
    \/ SetTextInput
    \/ HandleProcess
    \/ HandleProcessSettles
    \/ Reset
    \/ HandleFileChange
    \/ RemoveListedFile
    \/ EditTextInput
    \/ StartConversion
    \/ StartConversionSettles
    \/ ResetAll
    \/ ToolChanges

SpecUi == InitUi /\ [][NextUi]_vars

----------------------------------------------------------------------------
(* The router from the page load, for either App module and any fragment *)

InitRouter ==
    /\ \E app \in {"App.tsx", "part_001"}, p \in RouterPaths :
         router = Unrouted(app, SetHash(p))
    /\ CIdle
    /\ TIdle
    /\ OfficeIdle /\ ZipIdle /\ BatchIdle /\ EngineIdle /\ ServerIdle /\ UiIdle
    /\ PanelIdle

NextRouter ==
    \/ RouterMount
    \/ Navigate
    \/ GoHome
    \/ AddressBar
    \/ HandleHashChange

SpecRouter == InitRouter /\ [][NextRouter]_vars

----------------------------------------------------------------------------
(* The settings from the mount of either component, and the calls they reach *)

InitSettings ==
    /\ \E v \in {"handleProcess", "startConversion"}, t \in PanelTools :
         panel = [version |-> v, tool |-> t, compressMode |-> "quality",
                  targetSize |-> DefaultTargetSize, last |-> NoDispatch]
    /\ CIdle
    /\ TIdle
    /\ OfficeIdle /\ ZipIdle /\ BatchIdle /\ EngineIdle /\ ServerIdle /\ UiIdle
    /\ RouterIdle

NextSettings ==
    \/ SetCompressMode
    \/ SetTargetSize
    \/ PanelToolChanges
    \/ ProcessFileCalled

SpecSettings == InitSettings /\ [][NextSettings]_vars

----------------------------------------------------------------------------
(* Claims about compressToTargetSize, checked under Spec *)

\* The byte budget of the call, and the parts of the encode log
Budget == targetKB * 1024
SearchProbes == {k \in 1..Len(probes) : probes[k].call = "search"}
FallbackProbes == {k \in 1..Len(probes) : probes[k].call = "fallback"}
FittingSearchProbes == {k \in SearchProbes : probes[k].size <= Budget}
InitialFits == Len(probes) >= 1 /\ probes[1] # null /\ probes[1].size <= Budget
InitialTooBig == Len(probes) >= 1 /\ probes[1] # null /\ probes[1].size > Budget

\* The encoder's sizes seen so far never decrease as quality increases
MonotoneSoFar == \A p, r \in Known : p.q <= r.q => p.size <= r.size

\* C1: if the encoding at quality 0.01 is within the byte budget, the blob
\* the call returns is within the byte budget.
C1_ReturnsFittingWhenMinFits ==
    (cpc = "resolved" /\ img.sizeAtMin <= Budget)
        => (settled # null /\ settled.size <= Budget)

\* C1 witness: a call whose 0.01 encoding fits and whose quality-1.0
\* encoding does not has returned the quality-0.01 encoding, after a search
\* in which no midpoint fitted.
C1_Witness ==
    /\ cpc = "resolved"
    /\ img.sizeAtMin <= Budget
    /\ InitialTooBig
    /\ settled.call = "fallback"
    /\ settled.size <= Budget

\* C2 as claimed: if the encoding at quality 0.01 is over the byte budget,
\* the call returns exactly the encoding at quality 0.01.  Stated for the
\* encoders whose sizes never decrease as quality increases.
C2_ReturnsMinEncodingWhenMinTooBig ==
    (cpc = "resolved" /\ MonotoneSoFar /\ img.sizeAtMin > Budget)
        => settled = [q |-> QHundredth, size |-> img.sizeAtMin, call |-> "fallback"]

\* C2 as amended: if the encoding at quality 0.01 is over the byte budget and
\* neither the quality-1.0 encoding nor any of the probed midpoints is within
\* it, the call returns exactly the encoding at quality 0.01; if a probed
\* midpoint is within it, the call returns a midpoint encoding within it.
C2_Amended ==
    (cpc = "resolved" /\ img.sizeAtMin > Budget /\ InitialTooBig)
        => IF FittingSearchProbes = {}
           THEN settled = [q |-> QHundredth, size |-> img.sizeAtMin,
                           call |-> "fallback"]
           ELSE /\ settled.call = "search"
                /\ settled.size <= Budget

\* C2 witness: the fallback has returned a quality-0.01 encoding that is
\* over the byte budget.
C2_Witness ==
    /\ cpc = "resolved"
    /\ img.sizeAtMin > Budget
    /\ FittingSearchProbes = {}
    /\ settled.call = "fallback"
    /\ settled.q = QHundredth
    /\ settled.size > Budget

\* C3: while searching and on return, bestBlob is the encoding of the highest
\* quality among the probed midpoints that fitted (null while none has), and
\* when the quality-1.0 encoding does not fit and a midpoint fitted, the call
\* returns it.
C3_BestIsHighestFittingMidpoint ==
    /\ (InitialTooBig /\ cpc \in {"search", "fallback", "resolved"}) =>
         IF FittingSearchProbes = {}
         THEN bestBlob = null
         ELSE /\ \E k \in FittingSearchProbes : bestBlob = probes[k]
              /\ \A k \in FittingSearchProbes : probes[k].q <= bestBlob.q
    /\ (cpc = "resolved" /\ InitialTooBig /\ FittingSearchProbes # {}) =>
         settled = bestBlob

\* C3 witness: a call has returned after a search in which at least two
\* midpoints of different quality fitted.
C3_Witness ==
    /\ cpc = "resolved"
    /\ InitialTooBig
    /\ \E j, k \in FittingSearchProbes : probes[j].q < probes[k].q
    /\ settled.call = "search"

\* C4: if the quality-1.0 encoding fits, it is the only encode call, no
\* search iteration runs, and it is what the call returns.
C4_InitialFitReturnsAtOnce ==
    InitialFits =>
        /\ Len(probes) = 1
        /\ SearchProbes = {}
        /\ i = 0
        /\ cpc = "resolved"
        /\ settled = probes[1]
        /\ settled.q = 12800

\* C4 witness: a call has returned a quality-1.0 encoding whose size is
\* exactly the byte budget.
C4_Witness ==
    /\ cpc = "resolved"
    /\ InitialFits
    /\ settled.size = Budget

\* C5 as claimed, for the encode steps: once an encode step has run, the call
\* neither fails nor stays pending forever.
C5_EncodeNeverBlocksTheCall ==
    Len(probes) > 0 => cpc \notin {"rejected", "stuck"}

\* One iteration of the search replaces exactly one of min and max by the
\* midpoint, which halves max - min.
C6_StepHalves ==
    (cpc = "search" /\ i' = i + 1) =>
        /\ \/ (min' = min /\ 2 * max' = min + max)
           \/ (max' = max /\ 2 * min' = min + max)
        /\ 2 * (max' - min') = max - min
        /\ max' - min' < max - min

\* C6: every iteration replaces exactly one of min and max by the midpoint,
\* which halves max - min; min <= max always; after the 7th iteration the
\* width is 1/128 of the initial width.
C6_IntervalHalvedEachIteration ==
    /\ [](min <= max /\ (i = 7 => 128 * (max - min) = 12800))
    /\ [][C6_StepHalves]_vars

\* C6 witness: the 7th iteration is done, with min and max both moved.
C6_Witness ==
    /\ i = 7
    /\ min > 0
    /\ max < 12800
    /\ 128 * (max - min) = 12800

\* C7: when the quality-1.0 encoding does not fit the call makes exactly 7
\* midpoint encodes, whether or not a candidate was found; never more than 9
\* encode calls; the fallback encode runs only when no midpoint fitted.
C7_SevenProbesAtMostNineEncodes ==
    /\ Len(probes) <= 9
    /\ Cardinality(SearchProbes) <= 7
    /\ Cardinality(FallbackProbes) <= 1
    /\ (cpc = "resolved" /\ InitialTooBig) => Cardinality(SearchProbes) = 7
    /\ FallbackProbes # {} =>
         (Cardinality(SearchProbes) = 7 /\ FittingSearchProbes = {})
    /\ (cpc = "resolved" /\ InitialTooBig /\ FittingSearchProbes = {}) =>
         FallbackProbes # {}

\* C7 witness: a call whose first midpoint already fitted has returned after
\* 8 encode calls.
C7_Witness ==
    /\ cpc = "resolved"
    /\ Len(probes) = 8
    /\ 2 \in FittingSearchProbes
    /\ Cardinality(SearchProbes) = 7

\* The summary of a call that processTool's model uses agrees with the steps
\* of the call: a call that has ended has ended as CompressOutcome says.
CompressOutcomeAgrees ==
    cpc \in {"resolved", "rejected", "stuck"} =>
        cpc = CompressOutcome(img.decodes, img.ctx, img.encodable)

----------------------------------------------------------------------------
(* Claims about processTool, checked under SpecTool *)

\* C8: for a tool id processTool does not recognize, whatever the files, the
\* text and the options, the call resolves with success:false; its promise
\* neither rejects nor stays pending.
C8_UnrecognizedToolFails ==
    (tpc # "called" /\ toolId \notin Recognized)
        => (tpc = "resolved" /\ res.success = FALSE /\ raised = undefined)

\* C8 witness: a call for a catalog tool without a branch, with files and
\* text, has resolved.
C8_Witness ==
    /\ tpc = "resolved"
    /\ toolId = "heic-to-jpg"
    /\ Len(files) > 0
    /\ inputText # ""
    /\ res.message = "Tool not implemented yet."

\* C9 as claimed: for a recognized tool id, once an error has been raised in
\* a branch the call has resolved with success:false and a non-empty message.
C9_EveryErrorBecomesAFailedResult ==
    (tpc # "called" /\ toolId \in Recognized /\ raised # undefined)
        => /\ tpc = "resolved"
           /\ res.success = FALSE
           /\ res.message \notin {"", undefined}

\* The calls on several files
MultiFileCall ==
    \/ toolId \in {"merge-pdf", "image-to-pdf"}
    \/ toolId \in imageTools /\ Len(files) > 1

C19_ResultContract ==
    tpc = "resolved" =>
      /\ res.type \in {"file", "text", "image"}
      /\ (res.success /\ res.type \in {"file", "image"}) => res.url # undefined
      /\ (res.success /\ res.type = "text") => res.text # undefined
      /\ ~res.success => (res.message \notin {undefined, ""} /\ res.url = undefined)

\* A failure made by the catch clause from an error without a message
C19_Witness ==
    /\ tpc = "resolved"
    /\ raised = ""
    /\ res.success = FALSE
    /\ res.message = "An error occurred during processing."

----------------------------------------------------------------------------
(* Claims about the office branch (SpecOffice) *)

\* C11: an office invocation sends at most one HTTP request, and once a
\* request has failed the call has returned a result with success false
\* and the branch is over: nothing is attempted again.
C11_AtMostOneRequest ==
    /\ office.sent <= 1
    /\ raised # undefined =>
         /\ tpc = "resolved"
         /\ res.success = FALSE
         /\ office.pc = "done"

\* A request was sent, it failed, and time went on after the failure
C11_Witness ==
    /\ office.sent = 1
    /\ raised = "Failed to fetch"
    /\ res.success = FALSE
    /\ office.clock > 0

\* C17: an office invocation does not stay pending past the 60 second
\* timeout: if the server's complete response has not arrived by then, the
\* request has been aborted and the call has returned a result with success
\* false and the connection-failure message.
C17_NeverPendingPastTimeout ==
    office.clock > TimeoutMs =>
      /\ tpc = "resolved"
      /\ office.pc = "done"
      /\ office.timer = "fired" =>
           (res.success = FALSE /\ res.message = "Could not connect to conversion server.")

\* What the timer does cover: a fetch whose response headers have not
\* arrived when the timer is due is aborted and fails the call
TimeoutCoversTheFetch ==
    (office.pc = "fetching" => office.clock <= TimeoutMs)
    /\ (office.timer = "fired" /\ raised = "The user aborted a request.") =>
          (tpc = "resolved" /\ res.success = FALSE
           /\ res.message = "Could not connect to conversion server.")
FetchAborted ==
    /\ office.timer = "fired"
    /\ raised = "The user aborted a request."
    /\ office.clock = TimeoutMs

----------------------------------------------------------------------------
(* Claims about the archive of a batch image operation (SpecZip) *)

\* The name up to its last dot; the whole name when it has no dot or only a
\* leading one
UpToLastDot(name) ==
    IF \E k \in 2..Len(name) : name[k] = "." /\ \A j \in (k+1)..Len(name) : name[j] # "."
    THEN SubSeq(name, 1, (CHOOSE k \in 2..Len(name) :
                            name[k] = "." /\ \A j \in (k+1)..Len(name) : name[j] # ".") - 1)
    ELSE name
StoredExt == IF zip.targetFormat = "jpeg" THEN <<"j", "p", "g">> ELSE <<"p", "n", "g">>
\* The archive holds the conversion of the k-th input under this name
StoredAs(k, name) ==
    \E e \in 1..Len(zip.stored) : zip.stored[e].blob = k /\ zip.stored[e].name = name
\* The names given to the inputs before the k-th
NamesBefore(k) ==
    {zip.stored[e].name : e \in {d \in 1..Len(zip.stored) : zip.stored[d].blob < k}}

\* C12: in a batch image operation the conversion of the i-th input file is
\* stored in the archive under processed_i.<ext>.
C12_StoredAsProcessedI ==
    zip.pc = "stored" =>
      \A k \in 1..Len(zip.names) : StoredAs(k, Processed(k, StoredExt))

\* C12, amended: that holds for the dispatcher of src/unnamed/part_000; the
\* dispatcher of src/services/processors.ts stores the i-th conversion under
\* the input's own name up to its last dot plus .<ext>, or, when an earlier
\* entry has that name, under <base>_<c>.<ext> for the least c >= 1 that no
\* earlier entry has.
C12_Amended ==
    zip.pc = "stored" =>
      \A k \in 1..Len(zip.names) :
        /\ zip.by = "part_000" => StoredAs(k, Processed(k, StoredExt))
        /\ zip.by = "processors.ts" =>
             LET base == UpToLastDot(zip.names[k])
                 plain == base \o <<".">> \o StoredExt
             IN IF plain \notin NamesBefore(k)
                THEN StoredAs(k, plain)
                ELSE \E c \in 1..Len(zip.names) :
                       /\ StoredAs(k, Numbered(base, c, StoredExt))
                       /\ Numbered(base, c, StoredExt) \notin NamesBefore(k)
                       /\ \A b \in 1..(c-1) : Numbered(base, b, StoredExt) \in NamesBefore(k)

\* The current dispatcher stored a third file under <base>_2.<ext>
C12_Witness ==
    /\ zip.pc = "stored"
    /\ zip.by = "processors.ts"
    /\ Len(zip.names) = 3
    /\ StoredAs(3, Numbered(UpToLastDot(zip.names[3]), 2, StoredExt))

\* C13: whatever the input names, the archive's entry names are pairwise
\* distinct and the archive holds exactly one entry per input file, the
\* k-th entry being the conversion of the k-th input.
C13_EntriesDistinctOnePerInput ==
    zip.pc = "stored" =>
      /\ Len(zip.stored) = Len(zip.names)
      /\ \A d, e \in 1..Len(zip.stored) :
           d # e => zip.stored[d].name # zip.stored[e].name
      /\ \A k \in 1..Len(zip.stored) : zip.stored[k].blob = k

\* A repeated name followed by a name that already ends in _1: the third
\* entry collides with the suffixed second one
C13_Witness ==
    /\ zip.pc = "stored"
    /\ zip.by = "processors.ts"
    /\ zip.names = << <<"a", ".", "j", "p", "g">>, <<"a", ".", "p", "n", "g">>,
                      <<"a", "_", "1", ".", "j", "p", "g">> >>
    /\ zip.stored[3].name = <<"a", "_", "1", "_", "1", ".">> \o StoredExt

----------------------------------------------------------------------------
(* Claims about the concurrent conversions of the image branch (SpecBatch) *)

AllConversionsEnded ==
    /\ batch.pc = "done"
    /\ Len(batch.conv) > 1
    /\ \A k \in 1..Len(batch.conv) : batch.conv[k].kind # "running"
SomeConversionFailed ==
    \E k \in 1..Len(batch.conv) : batch.conv[k].kind \in {"throw", "pending"}

\* C14: in whatever order the conversions end, the k-th joined result is the
\* conversion of the k-th input file, and once every conversion has ended
\* with one of them failed, the call has yielded a result with success false.
C14_JoinedInInputOrderFailsAsAWhole ==
    /\ \A k \in 1..Len(batch.joined) : batch.joined[k] \in {0, k}
    /\ (tpc = "resolved" /\ res.success) => res.parts = [k \in 1..Len(files) |-> k]
    /\ (AllConversionsEnded /\ SomeConversionFailed) =>
         (tpc = "resolved" /\ res.success = FALSE)

\* What does hold of the join: the results are in input order, and a rejected
\* conversion fails the whole call at once
JoinedInInputOrderRejectionFails ==
    /\ \A k \in 1..Len(batch.joined) : batch.joined[k] \in {0, k}
    /\ (tpc = "resolved" /\ res.success) => res.parts = [k \in 1..Len(files) |-> k]
    /\ (\E k \in 1..Len(batch.conv) : batch.conv[k].kind = "throw") =>
         (tpc = "resolved" /\ res.success = FALSE)

\* The second conversion ended before the first and both are in the result
JoinedOutOfOrder ==
    /\ batch.order = <<2, 1>>
    /\ tpc = "resolved"
    /\ res.success

----------------------------------------------------------------------------
(* Claims about the media engine (SpecMedia) *)

\* C15: over every interleaving of media invocations the engine is loaded at
\* most once, and every invocation that has a handle has the same one.
C15_EngineLoadedOnce ==
    /\ Cardinality(engine.loaded) <= 1
    /\ \A c, d \in Calls :
         (engine.calls[c].pc \in {"write", "exec", "read", "cleanup", "returned"} /\
          engine.calls[d].pc \in {"write", "exec", "read", "cleanup", "returned"})
           => engine.calls[c].inst = engine.calls[d].inst

\* C16: a media invocation never reads a file that another invocation wrote
\* to the engine's file system, and what it returns derives from its own
\* input file.
C16_NoCrossInvocationReads ==
    \A c \in Calls :
      /\ engine.calls[c].reads \subseteq {c}
      /\ engine.calls[c].pc = "returned" => engine.calls[c].got = c

----------------------------------------------------------------------------
(* Claims about the server URL (SpecServer) *)

ConvertPath == <<"/", "c", "o", "n", "v", "e", "r", "t">>
LocalhostUrl ==
    <<"h", "t", "t", "p", ":", "/", "/", "l", "o", "c", "a", "l", "h", "o", "s", "t",
      ":", "3", "0", "0", "1">>
\* The string without its last character when that is a slash
LessTrailingSlash(str) ==
    IF str # <<>> /\ str[Len(str)] = "/" THEN SubSeq(str, 1, Len(str) - 1) ELSE str
UserSetUrl == server.lastSet.has
FreshlyMounted == server.mounted /\ server.fresh

\* C18: after the user has set the server URL to any string u, the
\* localStorage item is u, a ToolProcessor mounted afterwards starts with
\* serverUrl = u, and an office conversion posts to u + '/convert'.
C18_RoundTrip ==
    UserSetUrl =>
      /\ server.item = [has |-> TRUE, value |-> server.lastSet.value]
      /\ FreshlyMounted => server.serverUrl = server.lastSet.value
      /\ server.posted.has => server.posted.value = server.lastSet.value \o ConvertPath

\* C18, amended: the localStorage item is u; a ToolProcessor mounted
\* afterwards starts with serverUrl = u, or with 'http://localhost:3001'
\* when u is empty; an office conversion posts to u less one trailing slash
\* + '/convert', or to 'http://localhost:3001/convert' when u is empty.
C18_Amended ==
    UserSetUrl =>
      LET u == server.lastSet.value IN
      /\ server.item = [has |-> TRUE, value |-> u]
      /\ FreshlyMounted => server.serverUrl = (IF u = <<>> THEN LocalhostUrl ELSE u)
      /\ server.posted.has =>
           server.posted.value =
             LessTrailingSlash(IF u = <<>> THEN LocalhostUrl ELSE u) \o ConvertPath

\* The user set a URL with a trailing slash, the component was mounted anew
\* and a conversion posted
C18_Witness ==
    /\ server.lastSet = [has |-> TRUE, value |-> <<"h", "/">>]
    /\ FreshlyMounted
    /\ server.posted = [has |-> TRUE, value |-> <<"h">> \o ConvertPath]

----------------------------------------------------------------------------
(* Claims about the ToolProcessor component (SpecUi) *)

\* C20: when a conversion has just ended with a failed result, status is
\* error, errorMsg is non-empty and no result is stored; when it has just
\* ended with a successful result, status is completed and that result is
\* stored; status is not left at processing by a call that settled.
C20_StatusFollowsTheOutcome ==
    ui.last.just =>
      /\ ~ui.last.success =>
           (ui.status = "error" /\ ui.errorMsg # "" /\ ui.result.n = 0)
      /\ ui.last.success =>
           (ui.status = "completed" /\ ui.result.n = ui.last.n /\ ui.result.res.success)
      /\ ui.inflight = {} => ui.status # "processing"

\* What holds of either component while a single conversion has been started
StatusFollowsASingleConversion ==
    (ui.last.just /\ ui.started = 1) =>
      /\ ~ui.last.success =>
           (ui.status = "error" /\ ui.errorMsg # "" /\ ui.result.n = 0)
      /\ ui.last.success =>
           (ui.status = "completed" /\ ui.result.n = ui.last.n /\ ui.result.res.success)
      /\ ui.status # "processing"
FailedConversionShown ==
    /\ ui.last = [n |-> 1, success |-> FALSE, just |-> TRUE]
    /\ ui.status = "error"

\* The status views of the second component: what is on screen in a state
InErrorView == ui.version = "startConversion" /\ ui.status = "error"
InIdleView == ui.version = "startConversion" /\ ui.status = "idle"
HasInput == ui.files # <<>> \/ ui.text

\* C21: in status error Try Again can always be pressed; pressing it leaves
\* status idle with no files, no text and no stored result; in status idle
\* input can be provided when there is none, and once there is input a
\* conversion can be started (the model follows MaxConversions calls at a time).
C21_TryAgainNeverADeadEnd ==
    /\ [](InErrorView => ENABLED ResetAll)
    /\ [][(InErrorView /\ ResetAll) =>
            (ui'.status = "idle" /\ ui'.files = <<>> /\ ~ui'.text
               /\ ui'.result = NoStored)]_vars
    /\ []((InIdleView /\ ~HasInput) => ENABLED (HandleFileChange \/ EditTextInput))
    /\ []((InIdleView /\ HasInput /\ Cardinality(ui.inflight) < MaxConversions)
            => ENABLED StartConversion)
\* Try Again has just been pressed: only reset leaves the message of the
\* failure behind in status idle
C21_Witness ==
    /\ InIdleView
    /\ ui.errorMsg # ""
    /\ ui.last.n # 0 /\ ~ui.last.success
    /\ ui.files = <<>> /\ ~ui.text /\ ui.result = NoStored
    /\ ENABLED (HandleFileChange \/ EditTextInput)

----------------------------------------------------------------------------
(* Claims about the router and the views (SpecRouter) *)

\* What follows a prefix in a path, and its part before the next '/'
After(path, prefix) == SubSeq(path, Len(prefix) + 1, Len(path))
UpToSlash(str) ==
    IF \E k \in 1..Len(str) : str[k] = "/"
    THEN SubSeq(str, 1, (CHOOSE k \in 1..Len(str) :
                           str[k] = "/" /\ \A j \in 1..(k - 1) : str[j] # "/") - 1)
    ELSE str
OnIdRoute(path) == StartsWith(path, ToolPrefix) \/ StartsWith(path, CategoryPrefix)
FollowingSegment(path) ==
    IF StartsWith(path, ToolPrefix) THEN UpToSlash(After(path, ToolPrefix))
    ELSE UpToSlash(After(path, CategoryPrefix))

\* C22: params holds an id exactly when the path starts with '/tool/' or
\* '/category/' and the segment after that prefix is non-empty, and then
\* the id is that segment up to the next '/'; otherwise params is empty.
C22_ParamsIdIsTheFollowingSegment ==
    /\ router.params.id # NoPart <=>
          (OnIdRoute(router.path) /\ FollowingSegment(router.path) # <<>>)
    /\ router.params.id # NoPart => router.params.id = FollowingSegment(router.path)
    /\ router.params.id = NoPart => router.params = NoParams
C22_Witness ==
    /\ router.mounted
    /\ router.path = ToolPrefix \o <<"a", "/", "x">>
    /\ router.params = [id |-> <<"a">>]

\* The view the claim gives a path, and the message for an id off the catalog
HomePaths == {HomePath, <<>>, CategoriesAnchor, CategoriesPath}
ClaimedPage(path) ==
    IF path \in HomePaths THEN "home"
    ELSE IF StartsWith(path, CategoryPrefix) THEN "category"
    ELSE IF StartsWith(path, ToolPrefix) THEN "tool"
    ELSE "404"
NotFoundShown(view) ==
    /\ (view.page = "tool" /\ view.id \notin TOOLS) => view.body = "Tool not found"
    /\ (view.page = "category" /\ view.id \notin CATEGORIES)
         => view.body = "Category not found"

\* C23: the view rendered for the router's path is the home page for '/',
\* '', '/#categories' and '/categories', the category page for a path
\* starting with '/category/', the tool page for a path starting with
\* '/tool/', and the 404 view otherwise; an id that is not in the catalog
\* shows a not-found message.
C23_OneViewPerPath ==
    router.mounted =>
      /\ router.view.page = ClaimedPage(router.path)
      /\ NotFoundShown(router.view)

\* What holds of the App module that tests for the two anchors
ViewsOfAppTsx ==
    (router.mounted /\ router.app = "App.tsx") =>
      /\ router.view.page = ClaimedPage(router.path)
      /\ NotFoundShown(router.view)
ToolOffCatalogShown ==
    /\ router.mounted
    /\ router.app = "App.tsx"
    /\ router.path = ToolPrefix \o <<"b">>
    /\ router.view = [page |-> "tool", id |-> <<"b">>, body |-> "Tool not found"]

\* A hash without its leading '#', or '/' when that is empty
Unmarked(hash) ==
    IF hash = <<>> \/ hash = <<"#">> THEN HomePath
    ELSE SubSeq(hash, 2, Len(hash))
AllHandled == router.mounted /\ router.pending = 0

\* C24: the mount and every handled hashchange event leave path equal to
\* the hash without its '#', or '/' when that is empty; path changes in no
\* other step, so navigate only writes the hash; and once the events are
\* handled after a navigate, path is that navigate's argument, or '/' when
\* the argument was empty.
C24_PathFollowsTheHash ==
    /\ [][(RouterMount \/ HandleHashChange) =>
            router'.path = Unmarked(router'.hash)]_vars
    /\ [][router'.path # router.path => (RouterMount \/ HandleHashChange)]_vars
    /\ [](AllHandled => router.path = Unmarked(router.hash))
    /\ []((AllHandled /\ router.last.by = "navigate") =>
            router.path = IF router.last.arg = <<>> THEN HomePath
                          ELSE router.last.arg)
C24_Witness ==
    /\ AllHandled
    /\ router.last = [by |-> "navigate", arg |-> ToolPrefix \o <<"a">>]
    /\ router.path = ToolPrefix \o <<"a">>
    /\ router.view.body = "ToolProcessor"

----------------------------------------------------------------------------
(* Claims about the settings and the dispatcher (SpecSettings) *)

Positive(x) == ~x.nan /\ x.n > 0
CalledCompressor == panel.last.fn = "compressToTargetSize"
SizeModeOfCompressor ==
    /\ panel.last.fn # "none"
    /\ panel.last.toolId = "image-compressor"
    /\ panel.last.options.compressMode = "size"

\* C25: with any options the settings can produce, compressToTargetSize is
\* called only with a target above 0; the image compressor in size mode
\* with a target of 0, NaN or below 0 does not call it.
C25_CompressorOnlyWithPositiveTarget ==
    /\ CalledCompressor => Positive(panel.last.options.targetSizeKB)
    /\ (SizeModeOfCompressor /\ ~Positive(panel.last.options.targetSizeKB))
         => ~CalledCompressor

\* What the test of options.targetSizeKB does keep from the compressor
ZeroAndNaNAreKeptFromTheCompressor ==
    /\ CalledCompressor => (SizeModeOfCompressor /\ Truthy(panel.last.options.targetSizeKB))
    /\ (SizeModeOfCompressor /\ ~Truthy(panel.last.options.targetSizeKB))
         => panel.last.fn = "processImage"
NaNTargetGoesToProcessImage ==
    /\ SizeModeOfCompressor
    /\ panel.last.options.targetSizeKB = NaN
    /\ panel.last.fn = "processImage"
NegativeTargetReachesTheCompressor ==
    /\ CalledCompressor
    /\ panel.last.options.targetSizeKB = Num(0 - 5)

----------------------------------------------------------------------------
(* Further claims about the ToolProcessor component (SpecUi) *)

\* C26: at most one processTool call of a ToolProcessor is unsettled at any
\* time, whatever the user does.
C26_AtMostOneInFlight == Cardinality(ui.inflight) <= 1

\* Two calls unsettled at once, in each component
OverlapAfterHandleFiles ==
    /\ ui.version = "handleProcess"
    /\ Cardinality(ui.inflight) = 2
    /\ ui.status = "processing"
OverlapAfterToolChange ==
    /\ ui.version = "startConversion"
    /\ Cardinality(ui.inflight) = 2
    /\ ui.status = "processing"

\* What does hold: while status is processing no conversion can be started
NoStartWhileProcessing ==
    ui.status = "processing" => ~ENABLED (HandleProcess \/ StartConversion)

\* C27: a result is stored exactly when status is completed, and a stored
\* result has success true; status error or idle never has a stored result.
C27_ResultExactlyWhenCompleted ==
    /\ ui.result # NoStored <=> ui.status = "completed"
    /\ ui.result # NoStored => ui.result.res.success

\* What holds while at most one call has been unsettled at a time
ResultExactlyWhenCompletedUnlessOverlapped ==
    ui.started <= 1 =>
      /\ ui.result # NoStored <=> ui.status = "completed"
      /\ ui.result # NoStored => ui.result.res.success
StoredResultsSucceeded == ui.result # NoStored => ui.result.res.success
ErrorWithStoredResult ==
    /\ ui.status = "error"
    /\ ui.result # NoStored
    /\ ui.inflight = {}

\* A selection or a drop, in either component
FilesAdded == HandleFiles \/ HandleFileChange
IsProperPrefix(short, long) ==
    Len(short) < Len(long) /\ SubSeq(long, 1, Len(short)) = short

\* C28: the file list of a tool without batch input never holds more than
\* one file; on a batch tool every selection or drop puts its files after
\* the ones listed, which keep their order.
C28_OneFileUnlessBatch ==
    /\ [](~ui.batch => Len(ui.files) <= 1)
    /\ [][(FilesAdded /\ ui.batch) => IsProperPrefix(ui.files, ui'.files)]_vars

\* What holds: the first component lists one file of a selection or drop on
\* a tool without batch input, and batch tools append in order
OneFileKeptByHandleFiles ==
    [][(HandleFiles /\ ~ui.batch) => Len(ui'.files) = 1]_vars
BatchAppendsInOrder ==
    [][(FilesAdded /\ ui.batch) => IsProperPrefix(ui.files, ui'.files)]_vars
SeveralFilesDroppedOnANonBatchTool ==
    /\ ui.version = "startConversion"
    /\ ~ui.batch
    /\ Len(ui.files) = 2
    /\ ui.status = "idle"
BatchAppended ==
    /\ ui.version = "handleProcess"
    /\ ui.batch
    /\ ui.files = <<"f", "g">>

----------------------------------------------------------------------------
(* Further claims about processTool (SpecTool) *)

\* const isHybridTool = [...].includes(tool.id)
HybridTools == {"base64-encoder", "json-to-csv", "text-to-pdf", "markdown-to-html"}
FromText(r) ==
    \/ r.type = "file" /\ r.parts = <<>>
    \/ r.type = "text" /\ r.text = "btoa(inputText)"
FromFirstFile(r) ==
    \/ r.type = "file" /\ r.parts = <<1>>
    \/ r.type = "text" /\ r.text = "encodeBase64(files[0])"
TextOnly == inputText # "" /\ files = <<>>
TextAndFile == inputText # "" /\ files # <<>>

\* C29: a hybrid tool called with text and no file does not answer 'Tool
\* not implemented yet.' and what it converts is the text; called with text
\* and a file, what it converts is the file.
C29_HybridToolsTakeText ==
    (tpc = "resolved" /\ toolId \in HybridTools) =>
      /\ TextOnly => (res.message # "Tool not implemented yet."
                       /\ (res.success => FromText(res)))
      /\ (TextAndFile /\ res.success) => FromFirstFile(res)

\* What holds of the hybrid tools other than json-to-csv, and of all four
\* when a file is given
OtherHybridToolsTakeText ==
    (tpc = "resolved" /\ toolId \in HybridTools \ {"json-to-csv"}) =>
      /\ TextOnly => (res.message # "Tool not implemented yet."
                       /\ (res.success => FromText(res)))
      /\ (TextAndFile /\ res.success) => FromFirstFile(res)
FileWinsOverText ==
    (tpc = "resolved" /\ toolId \in HybridTools /\ TextAndFile /\ res.success)
      => FromFirstFile(res)
JsonTextNotImplemented ==
    /\ tpc = "resolved"
    /\ toolId = "json-to-csv"
    /\ TextOnly
    /\ res = Failure("Tool not implemented yet.")
Base64OfText ==
    /\ tpc = "resolved"
    /\ toolId = "base64-encoder"
    /\ TextOnly
    /\ res.success /\ FromText(res)

----------------------------------------------------------------------------
(* Further claims about the media engine (SpecMedia) *)

Finished(c) == Call(c).pc \in {"returned", "failed"}
LeftBy(c) == {e \in engine.fs : e.by = c}

\* C30: once a processMedia call has returned or thrown, no file that it
\* wrote, input or output, is left in the engine's file system.
C30_NothingLeftInTheFileSystem ==
    \A c \in Calls : Finished(c) => LeftBy(c) = {}

\* What holds: a call that returned while no other call had started has
\* left its engine's file system empty
ReturnedAloneLeavesNothing ==
    \A c \in Calls :
      (Call(c).pc = "returned" /\ \A d \in Calls \ {c} : Call(d).pc = "called")
        => engine.fs = {}
ReturnedAlone ==
    /\ Call(1).pc = "returned"
    /\ \A d \in Calls \ {1} : Call(d).pc = "called"
    /\ engine.fs = {}
FailedTranscodeLeavesItsInput ==
    /\ Call(1).pc = "failed"
    /\ Call(1).error = "exec"
    /\ \E e \in LeftBy(1) : e.name = InputName(Call(1).file)
    /\ \A d \in Calls \ {1} : Call(d).pc = "called"
UnreadableOutputLeavesItsInput ==
    /\ Call(1).pc = "failed"
    /\ Call(1).error = "readFile"
    /\ \E e \in LeftBy(1) : e.name = InputName(Call(1).file)
    /\ \A d \in Calls \ {1} : Call(d).pc = "called"
====
